---- MODULE Spec2Model ----
(***************************************************************************)
(* Model of the VoiceForward browser extension (sanghyuplee20/Dom).        *)
(*                                                                         *)
(* Modelled are:                                                           *)
(*   - speech recognition of the content script (VoiceForwardContent):     *)
(*     wake word, activation, the interim silence timer, stop phrases and  *)
(*     checkActivationState (specification Spec), and the recognizer's     *)
(*     life cycle with auto-restart and the start/stop/restart messages    *)
(*     (specification LifeSpec);                                           *)
(*   - the number overlay and the execution of action sequences            *)
(*     (specification SpecNumbers);                                        *)
(*   - the Accessly content script's continuous listening (specification   *)
(*     SpecAccessly);                                                      *)
(*   - the way of a voice command through content script, backend and      *)
(*     popup (specification SpecCommands);                                 *)
(*   - the background script with one tab (specification SpecBackground),  *)
(*     and a page load while recording is active (specification LoadSpec); *)
(*   - the number overlay of frontend/content.js with its 30 s auto-hide   *)
(*     timers (specification SpecFrontend).                                *)
(* Strings are sequences of one-character strings so that includes,        *)
(* indexOf, substring, trim, split and toLowerCase are computed as the     *)
(* JavaScript code computes them.                                          *)
(***************************************************************************)
EXTENDS Integers, Sequences, FiniteSets, TLC

(***************************************************************************)
(* Bounds of the model.                                                    *)
(***************************************************************************)
\* pending timers of one kind (auto-restart, delayed stop, restart)
MaxTimers == 1
\* messages in flight from the content script to the background
MaxInFlight == 1
\* elements of the largest page
NumElems == 52
\* elements of a page that the page's own scripts remove, hide or disable
MaxMutable == 2
\* actions of an action sequence
MaxActions == 2
\* voice commands the recognizer delivers
MaxCommands == 2
\* entries of the numbered_elements list of a show_numbers result
MaxItems == 2
\* pending auto-hide timers of frontend/content.js
MaxPending == 2
\* elements that a display of frontend/content.js numbers
MaxFound == 2
\* time steps that make up the auto-hide delay
Ticks == 3

(***************************************************************************)
(* Constants of the program.                                               *)
(***************************************************************************)
\* showNumbersDirectly numbers the first 50 visible elements
MaxNumbered == 50
\* frontend/content.js: setTimeout(() => this.hideNumbers(), 30000), in ms
AutoHideDelay == 30000

(***************************************************************************)
(* JavaScript string operations on sequences of characters.                *)
(***************************************************************************)
EmptyStr == <<>>

Min(a, b) == IF a < b THEN a ELSE b

Max(a, b) == IF a > b THEN a ELSE b

\* String.prototype.toLowerCase on the letters the utterances use
LowerChar(c) ==
    CASE c = "H" -> "h"
      [] c = "D" -> "d"
      [] c = "S" -> "s"
      [] c = "R" -> "r"
      [] c = "O" -> "o"
      [] OTHER -> c

ToLowerCase(s) == [i \in 1..Len(s) |-> LowerChar(s[i])]

\* String.prototype.trim: drops leading and trailing blanks
RECURSIVE TrimLeft(_)
TrimLeft(s) == IF s # <<>> /\ Head(s) = " " THEN TrimLeft(Tail(s)) ELSE s

RECURSIVE TrimRight(_)
TrimRight(s) ==
    IF s # <<>> /\ s[Len(s)] = " " THEN TrimRight(SubSeq(s, 1, Len(s) - 1)) ELSE s

Trim(s) == TrimRight(TrimLeft(s))

\* String.prototype.startsWith
StartsWith(s, p) == Len(p) <= Len(s) /\ SubSeq(s, 1, Len(p)) = p

\* String.prototype.includes
Includes(s, p) == \E i \in 0..(Len(s) - Len(p)) : SubSeq(s, i + 1, i + Len(p)) = p

\* String.prototype.indexOf: first position (0-based) of p in s, or -1
IndexOf(s, p) ==
    IF Includes(s, p)
    THEN CHOOSE i \in 0..(Len(s) - Len(p)) :
            /\ SubSeq(s, i + 1, i + Len(p)) = p
            /\ \A j \in 0..(i - 1) : SubSeq(s, j + 1, j + Len(p)) # p
    ELSE -1

\* String.prototype.substring(start): start is clamped to 0..length
Substring(s, start) == SubSeq(s, Min(Max(start, 0), Len(s)) + 1, Len(s))

\* String.prototype.split(sep) for a one-character separator
RECURSIVE SplitOn(_, _)
SplitOn(s, sep) ==
    IF \E i \in 1..Len(s) : s[i] = sep
    THEN LET i == CHOOSE k \in 1..Len(s) :
                     s[k] = sep /\ \A j \in 1..(k - 1) : s[j] # sep
         IN <<SubSeq(s, 1, i - 1)>> \o SplitOn(SubSeq(s, i + 1, Len(s)), sep)
    ELSE <<s>>

Split(s) == SplitOn(s, " ")

Digits == {"0", "1", "2", "3", "4", "5", "6", "7", "8", "9"}

DigitValue(c) ==
    CASE c = "0" -> 0 [] c = "1" -> 1 [] c = "2" -> 2 [] c = "3" -> 3 [] c = "4" -> 4
      [] c = "5" -> 5 [] c = "6" -> 6 [] c = "7" -> 7 [] c = "8" -> 8 [] c = "9" -> 9

NaN == -1

\* parseInt: the number written by the leading digits, NaN when there are none
RECURSIVE ParseDigits(_, _)
ParseDigits(s, acc) ==
    IF s # <<>> /\ Head(s) \in Digits
    THEN ParseDigits(Tail(s), 10 * acc + DigitValue(Head(s)))
    ELSE acc

ParseInt(s) ==
    LET t == TrimLeft(s)
    IN IF t # <<>> /\ Head(t) \in Digits THEN ParseDigits(t, 0) ELSE NaN

(***************************************************************************)
(* Wake word and stop phrases.                                             *)
(***************************************************************************)
wakeWordVariations ==
    << <<"h","e","y"," ","d","o","m">>,
       <<"h","e","y"," ","d","o","n">>,
       <<"a"," ","d","o","m">>,
       <<"h","e","y"," ","d","u","m","b">>,
       <<"h","e","y"," ","t","o","m">>,
       <<"h","e","y"," ","d","o","m">>,
       <<"h","e","y"," ","d","o","w","n">>,
       <<"h","e","y"," ","d","a","w","n">>,
       <<"h","e","y"," ","d","o","n","e">>,
       <<"h","e","y"," ","d","a","m","n">>,
       <<"a"," ","d","o","n">>,
       <<"a"," ","t","o","m">>,
       <<"a"," ","d","o","n","e">>,
       <<"a","i","d","e"," ","o","n">>,
       <<"h","e","y"," ","d","a","m","n">>,
       <<"h","e","y"," ","d","e","e","m">>,
       <<"h","e","y"," ","d","i","m">>,
       <<"h","a","y"," ","d","o","m">>,
       <<"h","e","y"," ","d","o","o","m">>,
       <<"h","e","y"," ","d","o","m">>,
       <<"h","e","y"," ","d","o","m">>,
       <<"h","e","y"," ","d","o","m">>,
       <<"h","e","y"," ","d","o","m">>,
       <<"h","e","y"," ","d","o","m">>,
       <<"h","e","y"," ","d","o","m">>,
       <<"d","o","m">>,
       <<"d","o","n">>,
       <<"t","o","m">>,
       <<"d","u","m","b">>,
       <<"d","a","w","n">>,
       <<"h","e","y">> >>

\* the callback of wakeWordVariations.find: does the variation match?
VariationMatches(variation, fullTranscript) ==
    \/ Includes(fullTranscript, variation)
    \/ /\ Len(variation) <= 4
       /\ LET words == Split(fullTranscript)
          IN \E k \in 1..Len(words) :
                \/ StartsWith(words[k], variation)
                \/ StartsWith(variation, words[k]) /\ Len(words[k]) >= 2

NoWakeWord == <<"<undefined>">>

\* find with a default: the wake word itself when no variation matches
DetectWakeWordOrDefault(fullTranscript) ==
    IF \E k \in 1..Len(wakeWordVariations) :
          VariationMatches(wakeWordVariations[k], fullTranscript)
    THEN wakeWordVariations[
            CHOOSE k \in 1..Len(wakeWordVariations) :
               /\ VariationMatches(wakeWordVariations[k], fullTranscript)
               /\ \A j \in 1..(k - 1) :
                     ~VariationMatches(wakeWordVariations[j], fullTranscript)]
    ELSE wakeWordVariations[1]

\* wakeWordVariations.find(...): the first matching variation, or undefined
DetectWakeWord(fullTranscript) ==
    IF \E k \in 1..Len(wakeWordVariations) :
          VariationMatches(wakeWordVariations[k], fullTranscript)
    THEN wakeWordVariations[
            CHOOSE k \in 1..Len(wakeWordVariations) :
               /\ VariationMatches(wakeWordVariations[k], fullTranscript)
               /\ \A j \in 1..(k - 1) :
                     ~VariationMatches(wakeWordVariations[j], fullTranscript)]
    ELSE NoWakeWord

\* the command extracted after the detected wake word
CommandAfterWakeWord(fullTranscript, detectedWakeWord) ==
    Trim(Substring(fullTranscript,
                   IndexOf(fullTranscript, detectedWakeWord) + Len(detectedWakeWord)))

stopPatterns ==
    { <<"s","t","o","p"," ","r","e","c","o","r","d","i","n","g">>,
      <<"s","t","o","p"," ","r","e","c","o","r","d">>,
      <<"e","n","d"," ","r","e","c","o","r","d","i","n","g">>,
      <<"f","i","n","i","s","h"," ","r","e","c","o","r","d","i","n","g">>,
      <<"q","u","i","t"," ","r","e","c","o","r","d","i","n","g">>,
      <<"c","l","o","s","e"," ","r","e","c","o","r","d","i","n","g">>,
      <<"t","u","r","n"," ","o","f","f"," ","r","e","c","o","r","d","i","n","g">>,
      <<"d","i","s","a","b","l","e"," ","r","e","c","o","r","d","i","n","g">> }

\* the stop-phrase test without toLowerCase
isStopRecordingCommandCaseSensitive(command) ==
    \E pattern \in stopPatterns : Includes(Trim(command), pattern)

isStopRecordingCommand(command) ==
    LET lowerCommand == Trim(ToLowerCase(command))
    IN \E pattern \in stopPatterns : Includes(lowerCommand, pattern)

(***************************************************************************)
(* What the recognizer can hear: the transcripts of the result events.     *)
(***************************************************************************)
U_Wake == <<"h","e","y"," ","d","o","m">>
U_WakeCmd == <<"H","e","y"," ","D","o","m"," ","s","h","o","w"," ","n","u","m","b","e","r","s">>
U_WakeShort == <<"h","e","y"," ","d","o","m"," ","o","k">>
U_Stop == <<" ","S","t","o","p"," ","r","e","c","o","r","d","i","n","g">>
U_Cmd == <<" ","c","l","i","c","k"," ","t","w","o">>
U_Trunc == <<"g","o"," ","t","o"," ","t","o","p">>
U_Short == <<"o","k">>

Utterances == {U_Wake, U_WakeCmd, U_WakeShort, U_Stop, U_Cmd, U_Trunc, U_Short}

\* result events <<finalTranscript, interimTranscript>> delivered to onresult
ResultEvents ==
    {<<u, EmptyStr>> : u \in Utterances} \cup
    {<<EmptyStr, u>> : u \in {U_Cmd, U_Stop, U_Short}} \cup
    {<<U_Stop, U_Cmd>>}

\* the result events of the life-cycle specification
LifeEvents == {<<U_WakeCmd, EmptyStr>>, <<U_Cmd, EmptyStr>>, <<EmptyStr, U_Cmd>>}

(***************************************************************************)
(* State.                                                                  *)
(***************************************************************************)
VARIABLES
    \* --- VoiceForwardContent, speech recognition ---
    isListening,        \* this.isListening
    isActivated,        \* this.isActivated
    shouldAutoRestart,  \* this.shouldAutoRestart
    interimTimeout,     \* this.interimTimeout: NoCmd, or the fullCommand of the pending timer
    rec,                \* the SpeechRecognition object: idle, starting, running, stopping, failed
    autoRestartTimers,  \* pending 100 ms timers armed by onend
    stopTimers,         \* pending 100 ms timers that call recognition.stop()
    restartTimers,      \* pending 500 ms timers of restartVoiceRecording
    restartRetryTimers, \* pending 2 s retries of restartVoiceRecording
    checkPc,            \* checkActivationState: awaiting, timer, retry, fallback, done
    checkResp,          \* the answer to getRecordingState on its way back: none, true, false
    toBg,               \* chrome.runtime messages on their way to the background (FIFO)
    \* --- VoiceForwardBackground ---
    bgActivated,        \* background isActivated
    bgRecording,        \* background isRecordingActive
    \* --- observation ---
    out,                \* what the last handler was given and did
    stopLatch,          \* clear / stopped (a stop phrase deactivated) / restored
    stopRequested,      \* a stopVoiceRecording request arrived and no start/restart/check ran since
    \* --- VoiceForwardContent, number overlay ---
    numberedElements,   \* this.numberedElements: number -> element
    overlays,           \* this.overlays: the overlay nodes, each with its number and element
    isShowingNumbers,   \* this.isShowingNumbers
    \* --- the page ---
    inDoc,              \* elements in the document
    hidden,             \* elements with display: none
    disabled,           \* elements with the disabled attribute
    \* --- executeResult / executeActions ---
    actions,            \* the list the loop of executeActions works on
    loopPc,             \* idle, loop
    loopIndex,          \* the next action the loop starts
    running,            \* executeAction promises that have not settled
    pausing,            \* wait_time pauses that have not settled
    attempted,          \* the actions executeAction was called for, in call order
    thrown,             \* the actions whose executeAction threw
    hideTimers,         \* pending 1 s timers of executeResult, each with its hasNumberAction
    nout,               \* what the last operation of this part was given and did
    \* --- Accessly content script (frontend/content/content.js) ---
    accIsListening,     \* isListening
    isRestarting,       \* isRestarting
    speechInterface,    \* speechInterface: FALSE when null
    statusText,         \* the text of the status indicator
    accRec,             \* speechRecognition: idle, starting, running, failed (error fired, end pending)
    endTimers,          \* pending 1 s restart timers armed by onend
    errorTimers,        \* pending 3 s restart timers armed by onerror
    statusTimers,       \* pending 1 s timers of onresult
    aout,               \* what the last handler of this script did
    \* --- a voice command on its way: content script, backend, popup ---
    nextCommand,        \* the number of the next command the recognizer delivers
    contentFetch,       \* commands whose fetch of processVoiceCommand has not settled
    popupOpen,          \* the popup is open
    toPopup,            \* messages of sendMessageToPopup the popup has not handled yet
    commandInput,       \* popup commandInput.value: 0 when empty, else the command
    popupSendTimers,    \* pending 500 ms timers of handleTranscriptionComplete
    isProcessing,       \* popup isProcessing
    popupFetch,         \* the command whose fetch of sendCommand has not settled, 0 for none
    backendRequests,    \* per command, the requests sent to the backend
    executions,         \* per command, the calls of executeResult
    cout,               \* what the last step of this part did
    \* --- the background script's messages to this tab ---
    toTab,              \* messages of the background this tab has not handled yet
    tabLoadTimers,      \* pending 1 s timers of tabs.onUpdated for this tab
    \* --- the number overlay of frontend/content.js ---
    feIsShowingNumbers, \* this.isShowingNumbers
    feNumbered,         \* how many elements this.numberedElements holds
    feShownFor,         \* ms since the display on the page began, counted up to AutoHideDelay
    feHideTimers,       \* pending 30 s timers, each with the ms left until it fires
    feout               \* what the last step of this part did

voiceVars ==
    <<isListening, isActivated, shouldAutoRestart, interimTimeout, rec,
      autoRestartTimers, stopTimers, restartTimers, restartRetryTimers,
      checkPc, checkResp, toBg, bgActivated, bgRecording,
      out, stopLatch, stopRequested>>

numberVars ==
    <<numberedElements, overlays, isShowingNumbers, inDoc, hidden, disabled,
      actions, loopPc, loopIndex, running, pausing, attempted, thrown, hideTimers, nout>>

accVars ==
    <<accIsListening, isRestarting, speechInterface, statusText, accRec,
      endTimers, errorTimers, statusTimers, aout>>

cmdVars ==
    <<nextCommand, contentFetch, popupOpen, toPopup, commandInput, popupSendTimers,
      isProcessing, popupFetch, backendRequests, executions, cout>>

bgVars == <<toTab, tabLoadTimers>>

feVars == <<feIsShowingNumbers, feNumbered, feShownFor, feHideTimers, feout>>

\* the content script's part of voiceVars: everything but the background's flags
tabVars ==
    <<isListening, isActivated, shouldAutoRestart, interimTimeout, rec,
      autoRestartTimers, stopTimers, restartTimers, restartRetryTimers,
      checkPc, checkResp, toBg, out, stopLatch, stopRequested>>

\* what the actions of the speech-recognition part leave alone
voiceRest == <<numberVars, accVars, cmdVars, bgVars, feVars>>

\* what the actions of the number overlay leave alone, besides voiceVars
numbersRest == <<accVars, cmdVars, bgVars, feVars>>

\* what the actions of the Accessly content script leave alone
accRest == <<voiceVars, numberVars, cmdVars, bgVars, feVars>>

\* what the steps of a voice command leave alone, besides the page
cmdRest == <<accVars, bgVars, feVars>>

\* what the background's steps leave alone, besides voiceVars
bgRest == <<numberVars, accVars, cmdVars, feVars>>

\* what the number overlay of frontend/content.js leaves alone
feRest == <<voiceVars, numberVars, accVars, cmdVars, bgVars>>

vars == <<voiceVars, numberVars, accVars, cmdVars, bgVars, feVars>>

NoCmd == <<"<none>">>

NoResp == "none"

\* the record kept in out
\* startedIn is the recognizer's state when the handler called start();
\* spoken is history: the text the silence timer processed in this recognition
\* session and no result event has followed yet (NoCmd otherwise)
Out(op, final, interim, processed, sentBg, popup, armed, startCalled) ==
    [op |-> op, final |-> final, interim |-> interim, wasActivated |-> isActivated,
     processed |-> processed, sentBg |-> sentBg, popup |-> popup,
     armed |-> armed, startCalled |-> startCalled,
     startedIn |-> IF startCalled THEN rec ELSE "", spoken |-> out.spoken]

Quiet(op) == Out(op, EmptyStr, EmptyStr, NoCmd, <<>>, <<>>, FALSE, FALSE)

(***************************************************************************)
(* The SpeechRecognition object (Web Speech API).                          *)
(***************************************************************************)
\* recognition.start() throws InvalidStateError unless the recognizer is idle
StartThrows == rec # "idle"

RecAfterStart == IF rec = "idle" THEN "starting" ELSE rec

\* recognition.stop() is ignored unless recognition is starting or running
RecAfterStop == IF rec \in {"starting", "running"} THEN "stopping" ELSE rec

(***************************************************************************)
(* recognition.onresult                                                    *)
(***************************************************************************)
\* The pure part of the handler, computed once per result event: the
\* lower-cased transcript, the detected wake word and the command after it.
WakeAnalysis ==
    [ev \in ResultEvents |->
        LET fullTranscript == ToLowerCase(Trim(ev[1] \o ev[2]))
            detectedWakeWord == DetectWakeWord(fullTranscript)
        IN [fullTranscript |-> fullTranscript,
            detectedWakeWord |-> detectedWakeWord,
            commandAfterWakeWord |->
                IF detectedWakeWord = NoWakeWord THEN NoCmd
                ELSE CommandAfterWakeWord(fullTranscript, detectedWakeWord)]]

\* the commands the activated branch can see, and whether each is a stop phrase
Commands ==
    {Trim(ev[1]) : ev \in ResultEvents} \cup {Trim(ev[1] \o ev[2]) : ev \in ResultEvents}

StopAnalysis == [command \in Commands |-> isStopRecordingCommand(command)]

\* the branch taken while isActivated is false: wake word detection
NotActivatedBranch(finalTranscript, interimTranscript) ==
    LET a == WakeAnalysis[<<finalTranscript, interimTranscript>>]
    IN IF a.detectedWakeWord # NoWakeWord
       THEN IF Len(a.commandAfterWakeWord) > 2
            THEN [act |-> TRUE, timer |-> interimTimeout, armed |-> FALSE,
                  processed |-> a.commandAfterWakeWord,
                  sentBg |-> <<"setActivationState:true">>,
                  popup |-> <<"transcriptionComplete">>, stopTimer |-> FALSE,
                  wake |-> TRUE, stop |-> FALSE]
            ELSE [act |-> TRUE, timer |-> interimTimeout, armed |-> FALSE,
                  processed |-> NoCmd,
                  sentBg |-> <<"setActivationState:true">>,
                  popup |-> <<"transcriptionUpdate">>, stopTimer |-> FALSE,
                  wake |-> TRUE, stop |-> FALSE]
       ELSE [act |-> FALSE, timer |-> interimTimeout, armed |-> FALSE,
             processed |-> NoCmd, sentBg |-> <<>>, popup |-> <<>>,
             stopTimer |-> FALSE, wake |-> FALSE, stop |-> FALSE]

\* a processed command with no activation, as a one-shot wake word would do
ResetAfterCommand == FALSE

\* "Stay in activated mode - don't reset": isActivated is left as it is
StayActivatedAfterCommand == isActivated

\* the interim part of the activated branch: preview and the 2 s silence timer
InterimArms(interimTranscript) ==
    interimTranscript # EmptyStr /\ Len(Trim(interimTranscript)) > 2

\* the final part of the activated branch
ActivatedBranch(finalTranscript, interimTranscript) ==
    LET fullCommand == Trim(finalTranscript \o interimTranscript)
        arms == InterimArms(interimTranscript)
        timer1 == IF arms THEN fullCommand ELSE interimTimeout
        preview == IF arms THEN <<"transcriptionUpdate">> ELSE <<>>
        command == Trim(finalTranscript)
    IN IF Trim(finalTranscript) # EmptyStr
       THEN IF StopAnalysis[command]
            THEN [act |-> FALSE, timer |-> NoCmd, armed |-> FALSE,
                  processed |-> NoCmd,
                  sentBg |-> <<"setActivationState:false">>,
                  popup |-> preview \o <<"recordingStopped">>, stopTimer |-> FALSE,
                  wake |-> FALSE, stop |-> TRUE]
            ELSE [act |-> StayActivatedAfterCommand, timer |-> NoCmd, armed |-> FALSE,
                  processed |-> command, sentBg |-> <<>>,
                  popup |-> preview \o <<"transcriptionComplete">>,
                  stopTimer |-> isListening, wake |-> FALSE, stop |-> FALSE]
       ELSE [act |-> TRUE, timer |-> timer1, armed |-> arms,
             processed |-> NoCmd, sentBg |-> <<>>, popup |-> preview,
             stopTimer |-> FALSE, wake |-> FALSE, stop |-> FALSE]

OnResultEffects(finalTranscript, interimTranscript) ==
    IF ~isActivated
    THEN NotActivatedBranch(finalTranscript, interimTranscript)
    ELSE ActivatedBranch(finalTranscript, interimTranscript)

\* the stop-phrase latch after a handler that detected the wake word (wake),
\* deactivated on a stop phrase (stop) or did neither
LatchAfter(wake, stop) ==
    IF stop THEN "stopped" ELSE IF wake THEN "clear" ELSE stopLatch

RecognitionOnResult(finalTranscript, interimTranscript) ==
    LET e == OnResultEffects(finalTranscript, interimTranscript)
    IN /\ rec \in {"running", "stopping"}
       /\ Len(toBg) + Len(e.sentBg) <= MaxInFlight
       /\ e.stopTimer => stopTimers < MaxTimers
       /\ isActivated' = e.act
       /\ interimTimeout' = e.timer
       /\ toBg' = toBg \o e.sentBg
       /\ stopTimers' = IF e.stopTimer THEN stopTimers + 1 ELSE stopTimers
       /\ stopLatch' = LatchAfter(e.wake, e.stop)
       /\ out' = [Out("onresult", finalTranscript, interimTranscript, e.processed,
                      e.sentBg, e.popup, e.armed, FALSE) EXCEPT !.spoken = NoCmd]
       /\ UNCHANGED <<isListening, shouldAutoRestart, rec, autoRestartTimers,
                      restartTimers, restartRetryTimers, checkPc, checkResp,
                      bgActivated, bgRecording, stopRequested>>

(***************************************************************************)
(* The 2 s silence timer armed on interim text.                            *)
(***************************************************************************)
InterimTimeoutEffects(fullCommand) ==
    IF isListening /\ Len(fullCommand) > 3
    THEN IF StopAnalysis[fullCommand]
         THEN [act |-> FALSE, processed |-> NoCmd,
               sentBg |-> <<"setActivationState:false">>,
               popup |-> <<"recordingStopped">>, stopTimer |-> FALSE, stop |-> TRUE]
         ELSE [act |-> StayActivatedAfterCommand, processed |-> fullCommand,
               sentBg |-> <<>>,
               popup |-> <<"transcriptionComplete">>, stopTimer |-> TRUE,
               stop |-> FALSE]
    ELSE [act |-> isActivated, processed |-> NoCmd, sentBg |-> <<>>,
          popup |-> <<>>, stopTimer |-> FALSE, stop |-> FALSE]

\* The handle is not cleared when the callback returns early; a fired timer
\* cannot fire again and clearTimeout of it does nothing, so it is NoCmd here.
InterimTimeoutFire ==
    LET e == InterimTimeoutEffects(interimTimeout)
    IN /\ interimTimeout # NoCmd
       /\ Len(toBg) + Len(e.sentBg) <= MaxInFlight
       /\ e.stopTimer => stopTimers < MaxTimers
       /\ isActivated' = e.act
       /\ interimTimeout' = NoCmd
       /\ toBg' = toBg \o e.sentBg
       /\ stopTimers' = IF e.stopTimer THEN stopTimers + 1 ELSE stopTimers
       /\ out' = [Out("interimTimeout", interimTimeout, EmptyStr, e.processed,
                      e.sentBg, e.popup, FALSE, FALSE) EXCEPT !.spoken = e.processed]
       /\ UNCHANGED <<isListening, shouldAutoRestart, rec, autoRestartTimers,
                      restartTimers, restartRetryTimers, checkPc, checkResp,
                      bgActivated, bgRecording, stopLatch, stopRequested>>

\* setTimeout(() => this.recognition.stop(), 100) after a processed command
StopTimerFire ==
    /\ stopTimers > 0
    /\ stopTimers' = stopTimers - 1
    /\ rec' = RecAfterStop
    /\ out' = Quiet("stopTimer")
    /\ UNCHANGED <<isListening, isActivated, shouldAutoRestart, interimTimeout,
                   autoRestartTimers, restartTimers, restartRetryTimers, checkPc,
                   checkResp, toBg, bgActivated, bgRecording, stopLatch,
                   stopRequested>>

(***************************************************************************)
(* recognition.onstart, onerror, onend                                     *)
(***************************************************************************)
RecognitionOnStart ==
    /\ rec = "starting"
    /\ rec' = "running"
    /\ isListening' = TRUE
    /\ out' = Out("onstart", EmptyStr, EmptyStr, NoCmd, <<>>,
                  <<"voiceStatusChanged:listening">>, FALSE, FALSE)
    /\ UNCHANGED <<isActivated, shouldAutoRestart, interimTimeout, autoRestartTimers,
                   stopTimers, restartTimers, restartRetryTimers, checkPc, checkResp,
                   toBg, bgActivated, bgRecording, stopLatch, stopRequested>>

RecognitionErrors == {"no-speech", "not-allowed", "audio-capture", "network"}

\* the recognizer reports an error; its end event follows
RecognitionOnError(error) ==
    /\ rec \in {"starting", "running", "stopping"}
    /\ rec' = "failed"
    /\ isListening' = FALSE
    /\ out' = Out("onerror", EmptyStr, EmptyStr, NoCmd, <<>>,
                  IF error = "no-speech" THEN <<>> ELSE <<"voiceError">>, FALSE, FALSE)
    /\ UNCHANGED <<isActivated, shouldAutoRestart, interimTimeout, autoRestartTimers,
                   stopTimers, restartTimers, restartRetryTimers, checkPc, checkResp,
                   toBg, bgActivated, bgRecording, stopLatch, stopRequested>>

\* onend arms the auto-restart timer only in continuous listening mode
OnEndArmsRestart == shouldAutoRestart

\* the end event: after stop(), after an error, or ended by the browser
RecognitionOnEnd ==
    /\ rec \in {"running", "stopping", "failed"}
    /\ OnEndArmsRestart => autoRestartTimers < MaxTimers
    /\ rec' = "idle"
    /\ isListening' = FALSE
    /\ interimTimeout' = NoCmd
    /\ autoRestartTimers' =
          IF OnEndArmsRestart THEN autoRestartTimers + 1 ELSE autoRestartTimers
    /\ out' = [Out("onend", EmptyStr, EmptyStr, NoCmd, <<>>,
                   <<"voiceStatusChanged:ready">>, FALSE, FALSE) EXCEPT !.spoken = NoCmd]
    /\ UNCHANGED <<isActivated, shouldAutoRestart, stopTimers, restartTimers,
                   restartRetryTimers, checkPc, checkResp, toBg, bgActivated,
                   bgRecording, stopLatch, stopRequested>>

\* the guard with the isListening test inverted
AutoRestartGuardInverted == isListening /\ shouldAutoRestart

\* the guard of the auto-restart timer callback
AutoRestartGuard == ~isListening /\ shouldAutoRestart

\* the 100 ms timer armed by onend
AutoRestartTimerFire ==
    /\ autoRestartTimers > 0
    /\ autoRestartTimers' = autoRestartTimers - 1
    /\ rec' = IF AutoRestartGuard THEN RecAfterStart ELSE rec
    /\ out' = Out("autoRestartTimer", EmptyStr, EmptyStr, NoCmd, <<>>, <<>>, FALSE,
                  AutoRestartGuard)
    /\ UNCHANGED <<isListening, isActivated, shouldAutoRestart, interimTimeout,
                   stopTimers, restartTimers, restartRetryTimers, checkPc, checkResp,
                   toBg, bgActivated, bgRecording, stopLatch, stopRequested>>

(***************************************************************************)
(* Messages from the popup and the background (setupMessageListener).      *)
(***************************************************************************)
\* startVoiceRecording returns at once while recognition is listening
StartVoiceRecordingRuns == ~isListening

StartVoiceRecording ==
    /\ isActivated' = IF StartVoiceRecordingRuns THEN FALSE ELSE isActivated
    /\ shouldAutoRestart' = IF StartVoiceRecordingRuns THEN TRUE ELSE shouldAutoRestart
    /\ rec' = IF StartVoiceRecordingRuns THEN RecAfterStart ELSE rec
    /\ stopRequested' = FALSE
    /\ out' = Out("startVoiceRecording", EmptyStr, EmptyStr, NoCmd, <<>>,
                  IF StartVoiceRecordingRuns /\ StartThrows
                  THEN <<"voiceError">> ELSE <<>>,
                  FALSE, StartVoiceRecordingRuns)
    /\ UNCHANGED <<isListening, interimTimeout, autoRestartTimers, stopTimers,
                   restartTimers, restartRetryTimers, checkPc, checkResp, toBg,
                   bgActivated, bgRecording, stopLatch>>

\* stopVoiceRecording returns at once unless recognition is listening
StopVoiceRecordingRuns == isListening

\* the body of stopVoiceRecording()
StopVoiceRecordingBody ==
    /\ shouldAutoRestart' = IF StopVoiceRecordingRuns THEN FALSE ELSE shouldAutoRestart
    /\ interimTimeout' = IF StopVoiceRecordingRuns THEN NoCmd ELSE interimTimeout
    /\ rec' = IF StopVoiceRecordingRuns THEN RecAfterStop ELSE rec

\* message stopVoiceRecording (the popup's Stop Recording button)
StopVoiceRecording ==
    /\ StopVoiceRecordingBody
    /\ stopRequested' = TRUE
    /\ out' = Quiet("stopVoiceRecording")
    /\ UNCHANGED <<isListening, isActivated, autoRestartTimers, stopTimers,
                   restartTimers, restartRetryTimers, checkPc, checkResp, toBg,
                   bgActivated, bgRecording, stopLatch>>

\* message stopRecordingFromVoice: shouldAutoRestart = false, then stopVoiceRecording()
StopRecordingFromVoice ==
    /\ shouldAutoRestart' = FALSE
    /\ interimTimeout' = IF StopVoiceRecordingRuns THEN NoCmd ELSE interimTimeout
    /\ rec' = IF StopVoiceRecordingRuns THEN RecAfterStop ELSE rec
    /\ out' = Quiet("stopRecordingFromVoice")
    /\ UNCHANGED <<isListening, isActivated, autoRestartTimers, stopTimers,
                   restartTimers, restartRetryTimers, checkPc, checkResp, toBg,
                   bgActivated, bgRecording, stopLatch, stopRequested>>

\* restartVoiceRecording(): from the message, and from its own 2 s retry
RestartVoiceRecordingCall(op) ==
    /\ restartTimers < MaxTimers
    /\ shouldAutoRestart' = TRUE
    /\ restartTimers' = restartTimers + 1
    /\ stopRequested' = FALSE
    /\ out' = Quiet(op)
    /\ UNCHANGED <<isListening, isActivated, interimTimeout, rec, autoRestartTimers,
                   stopTimers, checkPc, checkResp, toBg, bgActivated, bgRecording,
                   stopLatch>>

RestartVoiceRecording ==
    /\ RestartVoiceRecordingCall("restartVoiceRecording")
    /\ UNCHANGED restartRetryTimers

\* the guard with the isListening test inverted
RestartStartsWhenListening == isListening

\* the 500 ms timer calls recognition.start() unless recognition is listening
RestartStarts == ~isListening

\* the 500 ms timer of restartVoiceRecording
RestartTimerFire ==
    /\ restartTimers > 0
    /\ (RestartStarts /\ StartThrows) => restartRetryTimers < MaxTimers
    /\ restartTimers' = restartTimers - 1
    /\ rec' = IF RestartStarts THEN RecAfterStart ELSE rec
    /\ restartRetryTimers' =
          IF RestartStarts /\ StartThrows
          THEN restartRetryTimers + 1 ELSE restartRetryTimers
    /\ stopRequested' = FALSE
    /\ out' = Out("restartTimer", EmptyStr, EmptyStr, NoCmd, <<>>, <<>>, FALSE,
                  RestartStarts)
    /\ UNCHANGED <<isListening, isActivated, shouldAutoRestart, interimTimeout,
                   autoRestartTimers, stopTimers, checkPc, checkResp, toBg,
                   bgActivated, bgRecording, stopLatch>>

\* the 2 s retry after a failed start
RestartRetryFire ==
    /\ restartRetryTimers > 0
    /\ restartRetryTimers' = restartRetryTimers - 1
    /\ RestartVoiceRecordingCall("restartRetry")

(***************************************************************************)
(* checkActivationState                                                    *)
(***************************************************************************)
\* the answer arrives: restore the activation state, arm the 1 s start timer
\* checkActivationState that restores the activated mode whatever the answer is
RestoredActivationAlways(response) == TRUE

\* response && response.isActivated
RestoredActivation(response) == response = "true"

CheckResponse ==
    /\ checkPc = "awaiting"
    /\ checkResp # NoResp
    /\ isActivated' = RestoredActivation(checkResp)
    /\ shouldAutoRestart' = TRUE
    /\ checkResp' = NoResp
    /\ checkPc' = "timer"
    /\ stopLatch' = IF checkResp = "true" /\ stopLatch = "stopped"
                    THEN "restored" ELSE stopLatch
    /\ stopRequested' = FALSE
    /\ out' = Quiet("checkActivationState")
    /\ UNCHANGED <<isListening, interimTimeout, rec, autoRestartTimers, stopTimers,
                   restartTimers, restartRetryTimers, toBg, bgActivated, bgRecording>>

\* the request is rejected (the background cannot be reached): ready mode
CheckRejected ==
    /\ checkPc = "awaiting"
    /\ checkResp = NoResp
    /\ toBg # <<>> /\ Head(toBg) = "getRecordingState"
    /\ toBg' = Tail(toBg)
    /\ isActivated' = FALSE
    /\ shouldAutoRestart' = TRUE
    /\ checkPc' = "fallback"
    /\ stopRequested' = FALSE
    /\ out' = Quiet("checkActivationStateFailed")
    /\ UNCHANGED <<isListening, interimTimeout, rec, autoRestartTimers, stopTimers,
                   restartTimers, restartRetryTimers, checkResp, bgActivated,
                   bgRecording, stopLatch>>

\* the 1 s timer: start listening; a failed start retries in 2 s
CheckTimerFire ==
    /\ checkPc = "timer"
    /\ checkPc' = IF ~isListening /\ StartThrows THEN "retry" ELSE "done"
    /\ rec' = IF ~isListening THEN RecAfterStart ELSE rec
    /\ stopRequested' = FALSE
    /\ out' = Out("checkTimer", EmptyStr, EmptyStr, NoCmd, <<>>, <<>>, FALSE,
                  ~isListening)
    /\ UNCHANGED <<isListening, isActivated, shouldAutoRestart, interimTimeout,
                   autoRestartTimers, stopTimers, restartTimers, restartRetryTimers,
                   checkResp, toBg, bgActivated, bgRecording, stopLatch>>

\* the 1 s timer of the fallback: start listening, no retry
CheckFallbackTimerFire ==
    /\ checkPc = "fallback"
    /\ checkPc' = "done"
    /\ rec' = IF ~isListening THEN RecAfterStart ELSE rec
    /\ stopRequested' = FALSE
    /\ out' = Out("checkFallbackTimer", EmptyStr, EmptyStr, NoCmd, <<>>, <<>>, FALSE,
                  ~isListening)
    /\ UNCHANGED <<isListening, isActivated, shouldAutoRestart, interimTimeout,
                   autoRestartTimers, stopTimers, restartTimers, restartRetryTimers,
                   checkResp, toBg, bgActivated, bgRecording, stopLatch>>

\* the 2 s retry: checkActivationState() again, asking the background
CheckRetryFire ==
    /\ checkPc = "retry"
    /\ Len(toBg) < MaxInFlight
    /\ checkPc' = "awaiting"
    /\ toBg' = Append(toBg, "getRecordingState")
    /\ stopRequested' = FALSE
    /\ out' = Out("checkRetry", EmptyStr, EmptyStr, NoCmd, <<"getRecordingState">>,
                  <<>>, FALSE, FALSE)
    /\ UNCHANGED <<isListening, isActivated, shouldAutoRestart, interimTimeout, rec,
                   autoRestartTimers, stopTimers, restartTimers, restartRetryTimers,
                   checkResp, bgActivated, bgRecording, stopLatch>>

(***************************************************************************)
(* VoiceForwardBackground: runtime.onMessage                               *)
(***************************************************************************)
\* case 'setActivationState'
BgSetActivationState(activated) ==
    /\ bgActivated' = activated
    /\ bgRecording' = IF activated THEN TRUE ELSE bgRecording

\* the background handles the next message of the content script
BackgroundOnMessage ==
    /\ toBg # <<>>
    /\ toBg' = Tail(toBg)
    /\ CASE Head(toBg) = "setActivationState:true" ->
              BgSetActivationState(TRUE) /\ UNCHANGED checkResp
         [] Head(toBg) = "setActivationState:false" ->
              BgSetActivationState(FALSE) /\ UNCHANGED checkResp
         [] Head(toBg) = "getRecordingState" ->
              checkResp' = (IF bgActivated THEN "true" ELSE "false") /\ UNCHANGED <<bgActivated, bgRecording>>
    /\ UNCHANGED <<isListening, isActivated, shouldAutoRestart, interimTimeout, rec,
                   autoRestartTimers, stopTimers, restartTimers, restartRetryTimers,
                   checkPc, out, stopLatch, stopRequested>>

\* the content script of another tab reports its activation state
OtherTabSetActivationState(activated) ==
    /\ bgActivated # activated
    /\ BgSetActivationState(activated)
    /\ UNCHANGED <<isListening, isActivated, shouldAutoRestart, interimTimeout, rec,
                   autoRestartTimers, stopTimers, restartTimers, restartRetryTimers,
                   checkPc, checkResp, toBg, out, stopLatch, stopRequested>>

(***************************************************************************)
(* The page: its elements, their geometry, tags and texts.                 *)
(***************************************************************************)
\* JavaScript null (and an absent property of an action or description)
Null == 0

Elems == 1..NumElems

\* an empty page, a small page, and a page with more elements than are numbered
PageSizes == {0, 3, NumElems}

\* the elements that the page's scripts remove, hide, disable and restore
Mutable == 1..MaxMutable

\* getBoundingClientRect(): rows of two elements, 30px apart; the element that
\* comes first in document order is the right one of its row
Top(e) == 30 * ((e - 1) \div 2)

Left(e) == IF e % 2 = 1 THEN 200 ELSE 10

Abs(x) == IF x < 0 THEN -x ELSE x

\* the comparator of visibleElements.sort
ComparePosition(a, b) ==
    LET yDiff == Top(a) - Top(b)
    IN IF Abs(yDiff) < 20 THEN Left(a) - Left(b) ELSE yDiff

\* all elements in the order the comparator gives them
PositionOrder ==
    [r \in 1..NumElems |->
        CHOOSE e \in Elems :
            Cardinality({x \in Elems : ComparePosition(x, e) < 0}) = r - 1]

\* document order
DomOrder == [i \in 1..NumElems |-> i]

TagName(e) == CASE e = 2 -> "INPUT" [] e = 3 -> "BUTTON" [] OTHER -> "A"

Text_Home == <<"H","o","m","e">>
Text_Search == <<"S","e","a","r","c","h">>
Text_Submit == <<"S","u","b","m","i","t"," ","o","r","d","e","r">>
Text_Item == <<"i","t","e","m">>

\* getElementText
getElementText(e) ==
    CASE e = 1 -> Text_Home [] e = 2 -> Text_Search [] e = 3 -> Text_Submit
      [] OTHER -> Text_Item

(***************************************************************************)
(* Results of the backend: numbered elements and actions.                  *)
(***************************************************************************)
NumberPrefix == <<"n","u","m","b","e","r","_">>
T_Number1 == <<"n","u","m","b","e","r","_","1">>
T_Number2 == <<"n","u","m","b","e","r","_","2">>
T_Number7 == <<"n","u","m","b","e","r","_","7">>
T_Number51 == <<"n","u","m","b","e","r","_","5","1">>
T_Submit == <<"S","u","b","m","i","t">>

\* the targets that are searched as text
TextTargets == {T_Submit}

\* an entry of numbered_elements; the description stands for the element it describes
Item(number, element) == [number |-> number, element |-> element]

BaseItemLists ==
    { <<>>,
      <<Item(1, 1), Item(2, 2)>>,
      <<Item(1, 1), Item(2, 1)>>,
      <<Item(1, 1), Item(1, 3)>>,
      <<Item(7, 3)>>,
      <<Item(1, 2), Item(2, 3), Item(3, 1)>> }

ItemLists == {l \in BaseItemLists : Len(l) <= MaxItems}

NoSelector == [present |-> FALSE, dataNumber |-> Null, matches |-> Null]

\* a selector; dataNumber is the number of its [data-number='..'] part (Null without one)
Selector(dataNumber, matches) ==
    [present |-> TRUE, dataNumber |-> dataNumber, matches |-> matches]

NoAction ==
    [action |-> "", target |-> EmptyStr, validated_selector |-> Null,
     selector |-> NoSelector, coordinates |-> <<>>, wait_time |-> 0, url |-> FALSE]

A_ClickNumber1 ==
    [NoAction EXCEPT !.action = "click", !.target = T_Number1,
                     !.validated_selector = 3, !.selector = Selector(2, 3),
                     !.coordinates = <<3>>, !.wait_time = 1]
A_TypeNumber2 ==
    [NoAction EXCEPT !.action = "type", !.target = T_Number2, !.validated_selector = 1]
A_ClickNumber7 ==
    [NoAction EXCEPT !.action = "click", !.target = T_Number7]
A_ClickNumber51 ==
    [NoAction EXCEPT !.action = "click", !.target = T_Number51, !.validated_selector = 3]
A_ClickText ==
    [NoAction EXCEPT !.action = "click", !.target = T_Submit, !.wait_time = 1]
A_ClickPoint ==
    [NoAction EXCEPT !.action = "click", !.coordinates = <<2, 1>>]
A_ClickSelector ==
    [NoAction EXCEPT !.action = "click", !.selector = Selector(1, Null)]
A_HideNumbers ==
    [NoAction EXCEPT !.action = "hide_numbers"]
A_NavigateNoUrl ==
    [NoAction EXCEPT !.action = "navigate"]
\* "type hello": text only, no target, selector or coordinates
A_TypeFocused ==
    [NoAction EXCEPT !.action = "type"]

BaseActionLists ==
    { <<>>,
      <<A_ClickNumber1, A_TypeNumber2>>,
      <<A_ClickNumber7, A_ClickText>>,
      <<A_HideNumbers, A_ClickNumber1>>,
      <<A_NavigateNoUrl, A_HideNumbers>>,
      <<A_ClickNumber51>>,
      <<A_TypeFocused>>,
      <<A_ClickPoint, A_ClickSelector>>,
      <<A_ClickNumber7, A_HideNumbers, A_ClickNumber1>> }

ActionLists == {l \in BaseActionLists : Len(l) <= MaxActions}

\* a result of the backend; hasPayload is false when the list it needs is undefined
Results ==
    {[command_type |-> "show_numbers", numbered_elements |-> l, actions |-> <<>>,
      hasPayload |-> TRUE] : l \in ItemLists} \cup
    {[command_type |-> "action_sequence", numbered_elements |-> <<>>, actions |-> l,
      hasPayload |-> TRUE] : l \in ActionLists} \cup
    {[command_type |-> c, numbered_elements |-> <<>>, actions |-> <<>>,
      hasPayload |-> FALSE] : c \in {"show_numbers", "action_sequence"}}

\* the elements whose text contains the target, in the order Strategy 5 visits them
\* (buttons first, then links)
TextCandidates ==
    [t \in TextTargets |->
        SelectSeq(SelectSeq(DomOrder, LAMBDA e : TagName(e) = "BUTTON") \o
                  SelectSeq(DomOrder, LAMBDA e : TagName(e) = "A"),
                  LAMBDA e : Includes(ToLowerCase(getElementText(e)), ToLowerCase(t)))]

(***************************************************************************)
(* The number overlay.                                                     *)
(***************************************************************************)
\* the record kept in nout
NBase ==
    [op |-> "constructor", items |-> <<>>, action |-> NoAction, actions |-> <<>>,
     before |-> <<>>, found |-> Null, attempted |-> <<>>, thrown |-> {}]

\* numberedElements, overlays and isShowingNumbers as one value
NumbersState ==
    [numberedElements |-> numberedElements, overlays |-> overlays,
     isShowingNumbers |-> isShowingNumbers]

SetNumbersState(st) ==
    /\ numberedElements' = st.numberedElements
    /\ overlays' = st.overlays
    /\ isShowingNumbers' = st.isShowingNumbers

\* hideNumbers that forgets numberedElements.clear()
HideNumbersKeepsMap(st) ==
    [st EXCEPT !.overlays = <<>>, !.isShowingNumbers = FALSE]

hideNumbers(st) ==
    [numberedElements |-> <<>>, overlays |-> <<>>, isShowingNumbers |-> FALSE]

\* the visibility test of showNumbersDirectly
IsVisible(e) == e \in inDoc /\ e \notin hidden

isElementInteractable(e) ==
    e # Null /\ e \in inDoc /\ e \notin hidden /\ e \notin disabled

\* document.querySelector with a selector that names one element
QuerySelector(e) == IF e \in inDoc THEN e ELSE Null

\* the description of an element finds it as long as it is in the document
findElementFromDescription(desc) == IF desc \in inDoc THEN desc ELSE Null

MapGet(map, key) == IF key \in DOMAIN map THEN map[key] ELSE Null

RECURSIVE ShowNumbersLoop(_, _)
ShowNumbersLoop(st, items) ==
    IF items = <<>> THEN st
    ELSE LET item == Head(items)
             element == findElementFromDescription(item.element)
             alreadyNumbered ==
                 \E n \in DOMAIN st.numberedElements : st.numberedElements[n] = element
             next ==
                 IF element # Null /\ ~alreadyNumbered
                 THEN [st EXCEPT
                         !.overlays = Append(@, [number |-> item.number, element |-> element]),
                         !.numberedElements = (item.number :> element) @@ @]
                 ELSE st
         IN ShowNumbersLoop(next, Tail(items))

showNumbers(st, items) ==
    [ShowNumbersLoop(hideNumbers(st), items) EXCEPT !.isShowingNumbers = TRUE]

\* showNumbersDirectly without the slice
ElementsToNumberAll(visibleElements) == visibleElements

\* visibleElements.slice(0, 50)
ElementsToNumber(visibleElements) ==
    SubSeq(visibleElements, 1, Min(Len(visibleElements), MaxNumbered))

showNumbersDirectly(st) ==
    LET visibleElements == SelectSeq(PositionOrder, IsVisible)
        elementsToNumber == ElementsToNumber(visibleElements)
        cleared == hideNumbers(st)
    IN [numberedElements |-> elementsToNumber @@ cleared.numberedElements,
        overlays |-> cleared.overlays \o
                     [index \in 1..Len(elementsToNumber) |->
                         [number |-> index, element |-> elementsToNumber[index]]],
        isShowingNumbers |-> TRUE]

(***************************************************************************)
(* findActionTarget and executeAction.                                     *)
(***************************************************************************)
NotFound == [returned |-> FALSE, element |-> Null]

Return(e) == [returned |-> TRUE, element |-> e]

\* the first interactable element of a sequence, NotFound when there is none
FirstInteractable(elements) ==
    IF \E i \in 1..Len(elements) : isElementInteractable(elements[i])
    THEN Return(elements[CHOOSE i \in 1..Len(elements) :
                    /\ isElementInteractable(elements[i])
                    /\ \A j \in 1..(i - 1) : ~isElementInteractable(elements[j])])
    ELSE NotFound

\* parseInt(action.target.split('_')[1])
NumberOfTarget(target) ==
    LET parts == SplitOn(target, "_")
    IN IF Len(parts) >= 2 THEN ParseInt(parts[2]) ELSE NaN

\* Strategy 1: the numbered element
ByNumber(action) ==
    IF action.target # EmptyStr /\ StartsWith(action.target, NumberPrefix)
    THEN LET number == NumberOfTarget(action.target)
             element == MapGet(numberedElements, number)
         IN IF element = Null THEN NotFound
            ELSE IF element \notin inDoc THEN Return(Null)
            ELSE IF isElementInteractable(element) THEN Return(element)
            ELSE NotFound
    ELSE NotFound

\* Strategy 2: the validated selector
ByValidatedSelector(action) ==
    IF action.validated_selector # Null
    THEN FirstInteractable(<<QuerySelector(action.validated_selector)>>)
    ELSE NotFound

\* Strategy 3: the original selector, with its [data-number=..] shortcut
BySelector(action) ==
    IF action.selector.present
    THEN LET byDataNumber ==
                 IF action.selector.dataNumber # Null
                 THEN FirstInteractable(<<MapGet(numberedElements, action.selector.dataNumber)>>)
                 ELSE NotFound
         IN IF byDataNumber.returned THEN byDataNumber
            ELSE FirstInteractable(<<QuerySelector(action.selector.matches)>>)
    ELSE NotFound

\* Strategy 4: document.elementsFromPoint
ByCoordinates(action) ==
    IF action.coordinates # <<>>
    THEN FirstInteractable(SelectSeq(action.coordinates, LAMBDA e : e \in inDoc))
    ELSE NotFound

\* Strategy 5: text search, never for a number target
ByText(action) ==
    IF action.target # EmptyStr /\ ~StartsWith(action.target, NumberPrefix)
    THEN FirstInteractable(TextCandidates[action.target])
    ELSE NotFound

\* the element of the first strategy that returns, null when none does
FirstReturned(strategies) ==
    IF \E i \in 1..Len(strategies) : strategies[i].returned
    THEN strategies[CHOOSE i \in 1..Len(strategies) :
                        /\ strategies[i].returned
                        /\ \A j \in 1..(i - 1) : ~strategies[j].returned].element
    ELSE Null

\* findActionTarget that tries the selectors before the number
findActionTargetSelectorsFirst(action) ==
    FirstReturned(<<ByValidatedSelector(action), BySelector(action), ByNumber(action),
                    ByCoordinates(action), ByText(action)>>)

findActionTarget(action) ==
    FirstReturned(<<ByNumber(action), ByValidatedSelector(action), BySelector(action),
                    ByCoordinates(action), ByText(action)>>)

\* the element an action works on (null for the actions that look for none)
ActionElement(action) ==
    IF action.action \in {"click", "type"} THEN findActionTarget(action) ELSE Null

\* how the promise of executeAction settles: "ok" or "throw"
ExecuteActionOutcome(action) ==
    CASE action.action = "click" ->
             IF findActionTarget(action) = Null THEN "throw" ELSE "ok"
      [] action.action = "type" ->
             LET element == findActionTarget(action)
             IN IF element # Null /\ TagName(element) = "INPUT" THEN "ok" ELSE "throw"
      [] action.action = "navigate" ->
             IF action.url THEN "ok" ELSE "throw"
      [] OTHER -> "ok"

\* hasNumberAction of the delayed hide
\* hasNumberAction that is true of every sequence with an action
HasNumberActionAny(list) == list # <<>>

HasNumberAction(list) ==
    \E i \in 1..Len(list) :
        list[i].target # EmptyStr /\ StartsWith(list[i].target, NumberPrefix)

(***************************************************************************)
(* Actions of the number overlay and of executeActions.                    *)
(***************************************************************************)
LoopIdle ==
    /\ actions' = <<>>
    /\ loopPc' = "idle"
    /\ loopIndex' = 1
    /\ running' = {}
    /\ pausing' = {}
    /\ attempted' = <<>>
    /\ thrown' = {}

\* executeResult, up to its first await
ExecuteResult(result) ==
    /\ IF result.command_type = "show_numbers"
       THEN /\ IF result.hasPayload
               THEN SetNumbersState(showNumbers(NumbersState, result.numbered_elements))
               ELSE SetNumbersState(hideNumbers(NumbersState))
            /\ nout' = [NBase EXCEPT
                          !.op = IF result.hasPayload THEN "showNumbers" ELSE "showNumbers:threw",
                          !.items = result.numbered_elements,
                          !.before = numberedElements]
            /\ UNCHANGED <<actions, loopPc, loopIndex, running, pausing, attempted, thrown>>
       ELSE /\ loopPc = "idle"
            /\ IF result.hasPayload
               THEN /\ actions' = result.actions
                    /\ loopPc' = "loop"
                    /\ loopIndex' = 1
                    /\ UNCHANGED <<running, pausing, attempted, thrown>>
               ELSE UNCHANGED <<actions, loopPc, loopIndex, running, pausing, attempted, thrown>>
            /\ nout' = [NBase EXCEPT
                          !.op = IF result.hasPayload THEN "executeActions" ELSE "executeActions:threw",
                          !.actions = result.actions]
            /\ UNCHANGED <<numberedElements, overlays, isShowingNumbers>>
    /\ UNCHANGED <<inDoc, hidden, disabled, hideTimers>>
    /\ UNCHANGED voiceVars

\* the showNumbersDirectly message
ShowNumbersDirectly ==
    /\ SetNumbersState(showNumbersDirectly(NumbersState))
    /\ nout' = [NBase EXCEPT !.op = "showNumbersDirectly", !.before = numberedElements]
    /\ UNCHANGED <<inDoc, hidden, disabled, hideTimers,
                   actions, loopPc, loopIndex, running, pausing, attempted, thrown>>
    /\ UNCHANGED voiceVars

\* the awaits of the loop: executeAction and the wait_time pause have settled
AwaitsSettled == running = {} /\ pausing = {}

\* the catch that lets the error end the loop
CatchAborts(i) == Len(actions) + 1

\* the catch: continue with the next action
CatchContinues(i) == i

\* the loop calls executeAction(actions[i]); loopIndex is i + 1 of the code
ActionBegin ==
    /\ loopPc = "loop"
    /\ loopIndex <= Len(actions)
    /\ AwaitsSettled
    /\ LET action == actions[loopIndex]
       IN /\ IF action.action = "hide_numbers"
             THEN SetNumbersState(hideNumbers(NumbersState))
             ELSE UNCHANGED <<numberedElements, overlays, isShowingNumbers>>
          /\ running' = running \cup
                 {[index |-> loopIndex, outcome |-> ExecuteActionOutcome(action)]}
          /\ nout' = [NBase EXCEPT !.op = "executeAction", !.action = action,
                                   !.before = numberedElements,
                                   !.found = ActionElement(action)]
    /\ attempted' = Append(attempted, loopIndex)
    /\ loopIndex' = loopIndex + 1
    /\ UNCHANGED <<inDoc, hidden, disabled, hideTimers, actions, loopPc, pausing, thrown>>
    /\ UNCHANGED voiceVars

\* the promise of executeAction settles
ActionEnd ==
    /\ \E r \in running :
          /\ running' = running \ {r}
          /\ IF r.outcome = "throw"
             THEN /\ thrown' = thrown \cup {r.index}
                  /\ loopIndex' = CatchContinues(loopIndex)
                  /\ UNCHANGED pausing
             ELSE /\ pausing' = IF actions[r.index].wait_time > 0
                                THEN pausing \cup {r.index} ELSE pausing
                  /\ UNCHANGED <<thrown, loopIndex>>
    /\ nout' = [NBase EXCEPT !.op = "executeAction:settled"]
    /\ UNCHANGED <<numberedElements, overlays, isShowingNumbers, inDoc, hidden, disabled,
                   hideTimers, actions, loopPc, attempted>>
    /\ UNCHANGED voiceVars

\* the wait_time pause is over
PauseEnd ==
    /\ \E i \in pausing : pausing' = pausing \ {i}
    /\ nout' = [NBase EXCEPT !.op = "wait:settled"]
    /\ UNCHANGED <<numberedElements, overlays, isShowingNumbers, inDoc, hidden, disabled,
                   hideTimers, actions, loopPc, loopIndex, running, attempted, thrown>>
    /\ UNCHANGED voiceVars

\* executeActions returns and executeResult arms the delayed hide
ExecuteActionsReturn ==
    /\ loopPc = "loop"
    /\ loopIndex > Len(actions)
    /\ AwaitsSettled
    /\ Len(hideTimers) < MaxTimers
    /\ hideTimers' = Append(hideTimers, HasNumberAction(actions))
    /\ nout' = [NBase EXCEPT !.op = "executeActions:returned", !.actions = actions,
                             !.attempted = attempted, !.thrown = thrown]
    /\ LoopIdle
    /\ UNCHANGED <<numberedElements, overlays, isShowingNumbers, inDoc, hidden, disabled>>
    /\ UNCHANGED voiceVars

\* the 1 s timer of executeResult
HideTimerFire ==
    /\ hideTimers # <<>>
    /\ hideTimers' = Tail(hideTimers)
    /\ IF Head(hideTimers)
       THEN UNCHANGED <<numberedElements, overlays, isShowingNumbers>>
       ELSE SetNumbersState(hideNumbers(NumbersState))
    /\ nout' = [NBase EXCEPT !.op = IF Head(hideTimers) THEN "hideTimer:keep" ELSE "hideNumbers",
                             !.before = numberedElements]
    /\ UNCHANGED <<inDoc, hidden, disabled,
                   actions, loopPc, loopIndex, running, pausing, attempted, thrown>>
    /\ UNCHANGED voiceVars

\* the page changes under the script
DomChange(in, hid, dis) ==
    /\ inDoc' = in
    /\ hidden' = hid
    /\ disabled' = dis
    /\ nout' = [NBase EXCEPT !.op = "page"]
    /\ UNCHANGED <<numberedElements, overlays, isShowingNumbers, hideTimers,
                   actions, loopPc, loopIndex, running, pausing, attempted, thrown>>
    /\ UNCHANGED voiceVars

DomRemove(e) ==
    /\ e \in inDoc
    /\ DomChange(inDoc \ {e}, hidden \ {e}, disabled \ {e})

DomHide(e) ==
    /\ e \in inDoc /\ e \notin hidden /\ e \notin disabled
    /\ DomChange(inDoc, hidden \cup {e}, disabled)

DomDisable(e) ==
    /\ e \in inDoc /\ e \notin hidden /\ e \notin disabled
    /\ DomChange(inDoc, hidden, disabled \cup {e})

DomRestore(e) ==
    /\ e \in hidden \cup disabled
    /\ DomChange(inDoc, hidden \ {e}, disabled \ {e})

\* the number overlay after the constructor, on a page of n elements
InitPage(n) ==
    /\ numberedElements = <<>>
    /\ overlays = <<>>
    /\ isShowingNumbers = FALSE
    /\ inDoc = 1..n
    /\ hidden = {}
    /\ disabled = {}
    /\ actions = <<>>
    /\ loopPc = "idle"
    /\ loopIndex = 1
    /\ running = {}
    /\ pausing = {}
    /\ attempted = <<>>
    /\ thrown = {}
    /\ hideTimers = <<>>
    /\ nout = NBase

(***************************************************************************)
(* The Accessly content script (frontend/content/content.js): continuous   *)
(* listening.                                                              *)
(***************************************************************************)
AOut(op, startCalled) ==
    [op |-> op, startCalled |-> startCalled,
     wasListening |-> accIsListening, recWas |-> accRec]

\* updateStatus writes only while the interface exists
UpdateStatus(text) == IF speechInterface THEN text ELSE statusText

\* speechRecognition.start(): InvalidStateError unless the recognizer is idle
AccAfterStart == IF accRec = "idle" THEN "starting" ELSE accRec

\* startContinuousListening with the interface as it is after an optional create
StartContinuousListening(interface) ==
    /\ accRec' = AccAfterStart
    /\ statusText' = IF ~interface THEN statusText
                     ELSE IF accRec = "idle" THEN "Listening" ELSE "Error"

AccOnStart ==
    /\ accRec = "starting"
    /\ accRec' = "running"
    /\ accIsListening' = TRUE
    /\ statusText' = UpdateStatus("Listening")
    /\ aout' = AOut("onstart", FALSE)
    /\ UNCHANGED <<isRestarting, speechInterface, endTimers, errorTimers, statusTimers>>
    /\ UNCHANGED accRest

\* recognition.onresult: a final transcript is executed and the status reset later
AccOnResult(hasFinal) ==
    /\ accRec = "running"
    /\ hasFinal => statusTimers < MaxTimers
    /\ statusText' = IF hasFinal THEN UpdateStatus("Processing...") ELSE statusText
    /\ statusTimers' = IF hasFinal THEN statusTimers + 1 ELSE statusTimers
    /\ aout' = AOut("onresult", FALSE)
    /\ UNCHANGED <<accIsListening, isRestarting, speechInterface, accRec,
                   endTimers, errorTimers>>
    /\ UNCHANGED accRest

AccStatusTimerFire ==
    /\ statusTimers > 0
    /\ statusTimers' = statusTimers - 1
    /\ statusText' = IF accIsListening THEN UpdateStatus("Listening") ELSE statusText
    /\ aout' = AOut("statusTimer", FALSE)
    /\ UNCHANGED <<accIsListening, isRestarting, speechInterface, accRec,
                   endTimers, errorTimers>>
    /\ UNCHANGED accRest

AccErrors == {"not-allowed", "service-not-allowed", "aborted", "network", "no-speech",
              "audio-capture"}

AccRecoverable == {"aborted", "network", "no-speech"}

AccOnError(error) ==
    /\ accRec \in {"starting", "running"}
    /\ accRec' = "failed"
    /\ accIsListening' = FALSE
    /\ IF error \in {"not-allowed", "service-not-allowed"}
       THEN /\ statusText' = UpdateStatus("Permission Denied")
            /\ UNCHANGED <<isRestarting, errorTimers>>
       ELSE /\ statusText' = UpdateStatus("Error")
            /\ IF error \in AccRecoverable /\ ~isRestarting
               THEN /\ errorTimers < MaxTimers
                    /\ isRestarting' = TRUE
                    /\ errorTimers' = errorTimers + 1
               ELSE UNCHANGED <<isRestarting, errorTimers>>
    /\ aout' = AOut("onerror", FALSE)
    /\ UNCHANGED <<speechInterface, endTimers, statusTimers>>
    /\ UNCHANGED accRest

AccOnEnd ==
    /\ accRec \in {"running", "failed"}
    /\ accRec' = "idle"
    /\ accIsListening' = FALSE
    /\ statusText' = UpdateStatus("Ready")
    /\ IF ~isRestarting
       THEN /\ endTimers < MaxTimers
            /\ isRestarting' = TRUE
            /\ endTimers' = endTimers + 1
       ELSE UNCHANGED <<isRestarting, endTimers>>
    /\ aout' = AOut("onend", FALSE)
    /\ UNCHANGED <<speechInterface, errorTimers, statusTimers>>
    /\ UNCHANGED accRest

\* the guard of a restart timer that looks at isListening only
AccRestartGuardListeningOnly == ~accIsListening

\* the guard of both restart timers
AccRestartGuard == ~accIsListening /\ ~isRestarting

\* the body of both restart timers
AccRestartTimerBody(op) ==
    /\ accRec' = IF AccRestartGuard THEN AccAfterStart ELSE accRec
    /\ isRestarting' = FALSE
    /\ aout' = AOut(op, AccRestartGuard)
    /\ UNCHANGED <<accIsListening, speechInterface, statusText, statusTimers>>
    /\ UNCHANGED accRest

\* the 1 s timer of onend
AccEndTimerFire ==
    /\ endTimers > 0
    /\ endTimers' = endTimers - 1
    /\ UNCHANGED errorTimers
    /\ AccRestartTimerBody("endTimer")

\* the 3 s timer of onerror
AccErrorTimerFire ==
    /\ errorTimers > 0
    /\ errorTimers' = errorTimers - 1
    /\ UNCHANGED endTimers
    /\ AccRestartTimerBody("errorTimer")

\* the START_VOICE message
AccStartVoice ==
    /\ speechInterface' = TRUE
    /\ IF ~accIsListening
       THEN StartContinuousListening(TRUE)
       ELSE /\ statusText' = (IF speechInterface THEN statusText ELSE "Ready")
            /\ UNCHANGED accRec
    /\ aout' = AOut("START_VOICE", ~accIsListening)
    /\ UNCHANGED <<accIsListening, isRestarting, endTimers, errorTimers, statusTimers>>
    /\ UNCHANGED accRest

\* the TOGGLE_FLOATING_INTERFACE message
AccToggleInterface ==
    /\ speechInterface' = ~speechInterface
    /\ IF ~speechInterface
       THEN StartContinuousListening(TRUE)
       ELSE UNCHANGED <<accRec, statusText>>
    /\ aout' = AOut("TOGGLE_FLOATING_INTERFACE", ~speechInterface)
    /\ UNCHANGED <<accIsListening, isRestarting, endTimers, errorTimers, statusTimers>>
    /\ UNCHANGED accRest

\* the Accessly script after initializeExtension
InitAccessly ==
    /\ accIsListening = FALSE
    /\ isRestarting = FALSE
    /\ speechInterface = TRUE
    /\ statusText = "Listening"
    /\ accRec = "starting"
    /\ endTimers = 0
    /\ errorTimers = 0
    /\ statusTimers = 0
    /\ aout = [op |-> "initializeExtension", startCalled |-> TRUE,
               wasListening |-> FALSE, recWas |-> "idle"]

(***************************************************************************)
(* A voice command on its way: processVoiceCommand in the content script   *)
(* and the popup's handling of transcriptionComplete.                      *)
(***************************************************************************)
\* the results the backend answers a voice command with
CommandResults ==
    {r \in Results :
        \/ ~r.hasPayload /\ r.command_type = "show_numbers"
        \/ r.numbered_elements = <<Item(1, 1), Item(2, 2)>>
        \/ r.actions \in {<<A_ClickNumber7, A_ClickText>>, <<A_HideNumbers, A_ClickNumber1>>}}

FetchOutcomes == {"ok", "notOk", "networkError"}

COut(op, command, outcome, popup) ==
    [op |-> op, command |-> command, outcome |-> outcome, popup |-> popup]

\* processVoiceCommand that goes on to response.json() whatever response.ok is
ResponseExecutesNotOk(outcome) == outcome # "networkError"

\* the response reaches executeResult: fetch resolved and response.ok
ResponseExecutes(outcome) == outcome = "ok"

\* sendMessageToPopup: delivered when the popup is open, lost otherwise
SendToPopup(messages) == IF popupOpen THEN toPopup \o messages ELSE toPopup

\* onresult with a final command: transcriptionComplete to the popup, then
\* processVoiceCommand up to its fetch
VoiceCommand ==
    /\ nextCommand <= MaxCommands
    /\ Len(toPopup) < MaxInFlight + 1
    /\ nextCommand' = nextCommand + 1
    /\ contentFetch' = contentFetch \cup {nextCommand}
    /\ backendRequests' = [backendRequests EXCEPT ![nextCommand] = @ + 1]
    /\ toPopup' = SendToPopup(<<[type |-> "transcriptionComplete", command |-> nextCommand]>>)
    /\ cout' = COut("processVoiceCommand", nextCommand, "", "transcriptionComplete")
    /\ UNCHANGED <<popupOpen, commandInput, popupSendTimers, isProcessing, popupFetch,
                   executions>>
    /\ UNCHANGED <<voiceVars, numberVars, cmdRest>>

\* the fetch of processVoiceCommand settles; on success the result is executed
\* (commandExecuted is sent when executeResult has returned; the model sends it
\* with the call)
ContentFetchSettles(outcome, result) ==
    /\ \E command \in contentFetch :
          /\ contentFetch' = contentFetch \ {command}
          /\ IF ResponseExecutes(outcome)
             THEN /\ ExecuteResult(result)
                  /\ Len(toPopup) < MaxInFlight + 1
                  /\ executions' = [executions EXCEPT ![command] = @ + 1]
                  /\ toPopup' = SendToPopup(<<[type |-> "commandExecuted", command |-> command]>>)
                  /\ cout' = COut("processVoiceCommand:settled", command, outcome,
                                  "commandExecuted")
             ELSE /\ cout' = COut("processVoiceCommand:settled", command, outcome,
                                  "voiceError")
                  /\ UNCHANGED <<voiceVars, numberVars, executions, toPopup>>
    /\ UNCHANGED <<nextCommand, popupOpen, commandInput, popupSendTimers, isProcessing,
                   popupFetch, backendRequests>>
    /\ UNCHANGED cmdRest

\* the popup's onMessage listener
PopupReceive ==
    /\ toPopup # <<>>
    /\ toPopup' = Tail(toPopup)
    /\ IF Head(toPopup).type = "transcriptionComplete"
       THEN /\ popupSendTimers < MaxTimers
            /\ commandInput' = Head(toPopup).command
            /\ popupSendTimers' = popupSendTimers + 1
       ELSE /\ commandInput' = 0
            /\ UNCHANGED popupSendTimers
    /\ cout' = COut("popup:" \o Head(toPopup).type, Head(toPopup).command, "", "")
    /\ UNCHANGED <<nextCommand, contentFetch, popupOpen, isProcessing, popupFetch,
                   backendRequests, executions>>
    /\ UNCHANGED <<voiceVars, numberVars, cmdRest>>

\* the 500 ms timer of handleTranscriptionComplete: sendCommand up to its fetch
PopupSendTimerFire ==
    /\ popupSendTimers > 0
    /\ popupSendTimers' = popupSendTimers - 1
    /\ IF commandInput # 0 /\ ~isProcessing
       THEN /\ isProcessing' = TRUE
            /\ popupFetch' = commandInput
            /\ backendRequests' = [backendRequests EXCEPT ![commandInput] = @ + 1]
       ELSE UNCHANGED <<isProcessing, popupFetch, backendRequests>>
    /\ cout' = COut("popup:sendTimer", commandInput, "", "")
    /\ UNCHANGED <<nextCommand, contentFetch, popupOpen, toPopup, commandInput, executions>>
    /\ UNCHANGED <<voiceVars, numberVars, cmdRest>>

\* the fetch of sendCommand settles; on success the popup sends executeResult
\* to the content script
PopupFetchSettles(outcome, result) ==
    /\ popupFetch # 0
    /\ popupFetch' = 0
    /\ isProcessing' = FALSE
    /\ IF outcome = "ok"
       THEN /\ ExecuteResult(result)
            /\ executions' = [executions EXCEPT ![popupFetch] = @ + 1]
            /\ commandInput' = 0
       ELSE UNCHANGED <<voiceVars, numberVars, executions, commandInput>>
    /\ cout' = COut("popup:sendCommand:settled", popupFetch, outcome, "")
    /\ UNCHANGED <<nextCommand, contentFetch, popupOpen, toPopup, popupSendTimers,
                   backendRequests>>
    /\ UNCHANGED cmdRest

\* the user opens or closes the popup; a closed popup loses its state
PopupToggle ==
    /\ popupOpen' = ~popupOpen
    /\ toPopup' = <<>>
    /\ commandInput' = 0
    /\ popupSendTimers' = 0
    /\ isProcessing' = FALSE
    /\ popupFetch' = 0
    /\ cout' = COut("popup:toggle", 0, "", "")
    /\ UNCHANGED <<nextCommand, contentFetch, backendRequests, executions>>
    /\ UNCHANGED <<voiceVars, numberVars, cmdRest>>

InitCommands ==
    /\ nextCommand = 1
    /\ contentFetch = {}
    /\ popupOpen = FALSE
    /\ toPopup = <<>>
    /\ commandInput = 0
    /\ popupSendTimers = 0
    /\ isProcessing = FALSE
    /\ popupFetch = 0
    /\ backendRequests = [command \in 1..MaxCommands |-> 0]
    /\ executions = [command \in 1..MaxCommands |-> 0]
    /\ cout = COut("constructor", 0, "", "")

(***************************************************************************)
(* The background script: the popup's and the tabs' messages, page loads.  *)
(***************************************************************************)
\* message setRecordingState (the popup's startRecording and stopRecording)
BgSetRecordingState(isRecording) ==
    /\ bgRecording # isRecording
    /\ bgRecording' = isRecording
    /\ UNCHANGED <<bgActivated, tabVars, toTab, tabLoadTimers>>

\* message stopRecordingCommand: clear both flags, notifyAllTabs
BgStopRecordingCommand ==
    /\ Len(toTab) < MaxInFlight
    /\ bgRecording' = FALSE
    /\ bgActivated' = FALSE
    /\ toTab' = Append(toTab, "stopRecordingFromVoice")
    /\ UNCHANGED <<tabVars, tabLoadTimers>>

\* tabs.onUpdated with status complete: arm the 1 s timer while recording is
\* active (nothing happens otherwise)
TabUpdated ==
    /\ bgRecording
    /\ tabLoadTimers < MaxTimers
    /\ tabLoadTimers' = tabLoadTimers + 1
    /\ UNCHANGED <<voiceVars, toTab>>

\* the 1 s timer of tabs.onUpdated sends restartVoiceRecording to the tab
TabLoadTimerFire ==
    /\ tabLoadTimers > 0
    /\ Len(toTab) < MaxInFlight
    /\ tabLoadTimers' = tabLoadTimers - 1
    /\ toTab' = Append(toTab, "restartVoiceRecording")
    /\ UNCHANGED voiceVars

\* the content script's onMessage listener handles the background's next message
TabReceive ==
    /\ toTab # <<>>
    /\ toTab' = Tail(toTab)
    /\ CASE Head(toTab) = "stopRecordingFromVoice" ->
              StopRecordingFromVoice /\ UNCHANGED restartRetryTimers
         [] Head(toTab) = "restartVoiceRecording" -> RestartVoiceRecording
    /\ UNCHANGED tabLoadTimers

InitBackground ==
    /\ toTab = <<>>
    /\ tabLoadTimers = 0

(***************************************************************************)
(* The number overlay of frontend/content.js.  Every display arms a timer  *)
(* of AutoHideDelay ms; no handle is kept and no timer is ever cleared.    *)
(* Time passes in steps of TickMs, and a timer that is due fires before    *)
(* the next step.                                                          *)
(***************************************************************************)
\* the time step of the model
TickMs == AutoHideDelay \div Ticks

FeOut(op, wasShowing, had, shownFor) ==
    [op |-> op, wasShowing |-> wasShowing, had |-> had, shownFor |-> shownFor]

\* showNumbers: hideNumbers, one overlay per entry whose element is found,
\* isShowingNumbers = true, and the auto-hide timer
FeShowNumbers(found) ==
    /\ Len(feHideTimers) < MaxPending
    /\ feIsShowingNumbers' = TRUE
    /\ feNumbered' = found
    /\ feShownFor' = 0
    /\ feHideTimers' = Append(feHideTimers, AutoHideDelay)
    /\ feout' = FeOut("showNumbers", feIsShowingNumbers, feNumbered, feShownFor)

\* executeResult with command_type show_numbers; without numbered_elements
\* showNumbers throws after its hideNumbers, before the timer is armed
FeExecuteResult(hasPayload, found) ==
    IF hasPayload
    THEN FeShowNumbers(found)
    ELSE /\ feIsShowingNumbers
         /\ feIsShowingNumbers' = FALSE
         /\ feNumbered' = 0
         /\ feShownFor' = 0
         /\ feout' = FeOut("showNumbersThrows", feIsShowingNumbers, feNumbered, feShownFor)
         /\ UNCHANGED feHideTimers

\* the message showNumbersDirectly: hideNumbers, the first visible elements
\* are numbered, isShowingNumbers = true, and the auto-hide timer
FeShowNumbersDirectly(found) ==
    /\ Len(feHideTimers) < MaxPending
    /\ feIsShowingNumbers' = TRUE
    /\ feNumbered' = found
    /\ feShownFor' = 0
    /\ feHideTimers' = Append(feHideTimers, AutoHideDelay)
    /\ feout' = FeOut("showNumbersDirectly", feIsShowingNumbers, feNumbered, feShownFor)

\* an auto-hide timer fires: hideNumbers, whatever is on display
FeHideTimerFire ==
    /\ feHideTimers # <<>>
    /\ Head(feHideTimers) = 0
    /\ feHideTimers' = Tail(feHideTimers)
    /\ feIsShowingNumbers' = FALSE
    /\ feNumbered' = 0
    /\ feShownFor' = 0
    /\ feout' = FeOut("hideTimer", feIsShowingNumbers, feNumbered, feShownFor)

\* TickMs pass
FeTick ==
    /\ feHideTimers # <<>>
    /\ \A i \in 1..Len(feHideTimers) : feHideTimers[i] > 0
    /\ feHideTimers' = [i \in 1..Len(feHideTimers) |-> Max(0, feHideTimers[i] - TickMs)]
    /\ feShownFor' = IF feIsShowingNumbers
                     THEN Min(AutoHideDelay, feShownFor + TickMs)
                     ELSE 0
    /\ feout' = FeOut("tick", feIsShowingNumbers, feNumbered, feShownFor)
    /\ UNCHANGED <<feIsShowingNumbers, feNumbered>>

\* the state after the constructor: nothing numbered, no timer
InitFrontend ==
    /\ feIsShowingNumbers = FALSE
    /\ feNumbered = 0
    /\ feShownFor = 0
    /\ feHideTimers = <<>>
    /\ feout = FeOut("constructor", FALSE, 0, 0)

(***************************************************************************)
(* Specification of the speech-recognition life cycle.                     *)
(***************************************************************************)
\* the state after the constructor: checkActivationState has asked the background
VoiceInit ==
    /\ isListening = FALSE
    /\ isActivated = FALSE
    /\ shouldAutoRestart = TRUE
    /\ interimTimeout = NoCmd
    /\ rec = "idle"
    /\ autoRestartTimers = 0
    /\ stopTimers = 0
    /\ restartTimers = 0
    /\ restartRetryTimers = 0
    /\ checkPc = "awaiting"
    /\ checkResp = NoResp
    /\ toBg = <<"getRecordingState">>
    /\ bgActivated \in BOOLEAN
    /\ bgRecording \in BOOLEAN
    /\ bgActivated => bgRecording
    /\ out = [op |-> "constructor", final |-> EmptyStr, interim |-> EmptyStr,
              wasActivated |-> FALSE, processed |-> NoCmd, sentBg |-> <<>>,
              popup |-> <<>>, armed |-> FALSE, startCalled |-> FALSE,
              startedIn |-> "", spoken |-> NoCmd]
    /\ stopLatch = "clear"
    /\ stopRequested = FALSE

\* the content script on a small page
Init ==
    VoiceInit /\ InitPage(3) /\ InitAccessly /\ InitCommands /\ InitBackground /\ InitFrontend

\* Activation: everything that reads or writes isActivated, the silence timer
\* and the background's copy.  restartVoiceRecording touches none of them (it
\* sets shouldAutoRestart and starts the recognizer, as startVoiceRecording and
\* the auto-restart do) and is part of LifeNext.
Next ==
    \/ \E ev \in ResultEvents : RecognitionOnResult(ev[1], ev[2]) /\ UNCHANGED voiceRest
    \/ InterimTimeoutFire /\ UNCHANGED voiceRest
    \/ StopTimerFire /\ UNCHANGED voiceRest
    \/ RecognitionOnStart /\ UNCHANGED voiceRest
    \/ \E error \in RecognitionErrors : RecognitionOnError(error) /\ UNCHANGED voiceRest
    \/ RecognitionOnEnd /\ UNCHANGED voiceRest
    \/ AutoRestartTimerFire /\ UNCHANGED voiceRest
    \/ StartVoiceRecording /\ UNCHANGED voiceRest
    \/ StopVoiceRecording /\ UNCHANGED voiceRest
    \/ StopRecordingFromVoice /\ UNCHANGED voiceRest
    \/ CheckResponse /\ UNCHANGED voiceRest
    \/ CheckRejected /\ UNCHANGED voiceRest
    \/ CheckTimerFire /\ UNCHANGED voiceRest
    \/ CheckFallbackTimerFire /\ UNCHANGED voiceRest
    \/ CheckRetryFire /\ UNCHANGED voiceRest
    \/ BackgroundOnMessage /\ UNCHANGED voiceRest
    \/ OtherTabSetActivationState(TRUE) /\ UNCHANGED voiceRest
    \/ OtherTabSetActivationState(FALSE) /\ UNCHANGED voiceRest

Spec == Init /\ [][Next]_vars

(***************************************************************************)
(* Specification of the recognizer life cycle: every way recognition is    *)
(* started, stopped and restarted, with the result events that matter to   *)
(* it (a command arms the delayed stop, interim text arms the timer).      *)
(***************************************************************************)
LifeNext ==
    \/ \E ev \in LifeEvents : RecognitionOnResult(ev[1], ev[2]) /\ UNCHANGED voiceRest
    \/ InterimTimeoutFire /\ UNCHANGED voiceRest
    \/ StopTimerFire /\ UNCHANGED voiceRest
    \/ RecognitionOnStart /\ UNCHANGED voiceRest
    \/ \E error \in RecognitionErrors : RecognitionOnError(error) /\ UNCHANGED voiceRest
    \/ RecognitionOnEnd /\ UNCHANGED voiceRest
    \/ AutoRestartTimerFire /\ UNCHANGED voiceRest
    \/ StartVoiceRecording /\ UNCHANGED voiceRest
    \/ StopVoiceRecording /\ UNCHANGED voiceRest
    \/ StopRecordingFromVoice /\ UNCHANGED voiceRest
    \/ RestartVoiceRecording /\ UNCHANGED voiceRest
    \/ RestartTimerFire /\ UNCHANGED voiceRest
    \/ RestartRetryFire /\ UNCHANGED voiceRest
    \/ CheckResponse /\ UNCHANGED voiceRest
    \/ CheckRejected /\ UNCHANGED voiceRest
    \/ CheckTimerFire /\ UNCHANGED voiceRest
    \/ CheckFallbackTimerFire /\ UNCHANGED voiceRest
    \/ CheckRetryFire /\ UNCHANGED voiceRest
    \/ BackgroundOnMessage /\ UNCHANGED voiceRest

\* A timer that was armed fires.
LifeFairness == WF_vars(AutoRestartTimerFire /\ UNCHANGED voiceRest)

LifeSpec == Init /\ [][LifeNext]_vars /\ LifeFairness

(***************************************************************************)
(* Specification of the number overlay and of action sequences.            *)
(***************************************************************************)
InitNumbers ==
    /\ VoiceInit
    /\ ~bgRecording
    /\ \E n \in PageSizes : InitPage(n)
    /\ InitAccessly
    /\ InitCommands
    /\ InitBackground
    /\ InitFrontend

NextNumbers ==
    \/ \E result \in Results : ExecuteResult(result) /\ UNCHANGED numbersRest
    \/ ShowNumbersDirectly /\ UNCHANGED numbersRest
    \/ ActionBegin /\ UNCHANGED numbersRest
    \/ ActionEnd /\ UNCHANGED numbersRest
    \/ PauseEnd /\ UNCHANGED numbersRest
    \/ ExecuteActionsReturn /\ UNCHANGED numbersRest
    \/ HideTimerFire /\ UNCHANGED numbersRest
    \/ \E e \in Mutable : DomRemove(e) /\ UNCHANGED numbersRest
    \/ \E e \in Mutable : DomHide(e) /\ UNCHANGED numbersRest
    \/ \E e \in Mutable : DomDisable(e) /\ UNCHANGED numbersRest
    \/ \E e \in Mutable : DomRestore(e) /\ UNCHANGED numbersRest

SpecNumbers == InitNumbers /\ [][NextNumbers]_vars

(***************************************************************************)
(* Specification of the Accessly content script.                           *)
(***************************************************************************)
NextAccessly ==
    \/ AccOnStart
    \/ \E hasFinal \in BOOLEAN : AccOnResult(hasFinal)
    \/ AccStatusTimerFire
    \/ \E error \in AccErrors : AccOnError(error)
    \/ AccOnEnd
    \/ AccEndTimerFire
    \/ AccErrorTimerFire
    \/ AccStartVoice
    \/ AccToggleInterface

SpecAccessly == Init /\ [][NextAccessly]_vars

(***************************************************************************)
(* Specification of the way of a voice command: the content script's own   *)
(* request, the popup's request, and the execution of the results.         *)
(***************************************************************************)
NextCommands ==
    \/ VoiceCommand
    \/ \E outcome \in FetchOutcomes, result \in CommandResults :
          ContentFetchSettles(outcome, result)
    \/ PopupReceive
    \/ PopupSendTimerFire
    \/ \E outcome \in FetchOutcomes, result \in CommandResults :
          PopupFetchSettles(outcome, result)
    \/ PopupToggle
    \/ ActionBegin /\ UNCHANGED numbersRest
    \/ ActionEnd /\ UNCHANGED numbersRest
    \/ PauseEnd /\ UNCHANGED numbersRest
    \/ ExecuteActionsReturn /\ UNCHANGED numbersRest
    \/ HideTimerFire /\ UNCHANGED numbersRest

SpecCommands == Init /\ [][NextCommands]_vars

(***************************************************************************)
(* Specification of the background script with one tab's content script.   *)
(***************************************************************************)
BackgroundNext ==
    \/ \E ev \in {<<U_WakeCmd, EmptyStr>>} :
          RecognitionOnResult(ev[1], ev[2]) /\ UNCHANGED voiceRest
    \/ StopTimerFire /\ UNCHANGED voiceRest
    \/ RecognitionOnStart /\ UNCHANGED voiceRest
    \/ \E error \in RecognitionErrors : RecognitionOnError(error) /\ UNCHANGED voiceRest
    \/ RecognitionOnEnd /\ UNCHANGED voiceRest
    \/ AutoRestartTimerFire /\ UNCHANGED voiceRest
    \/ StartVoiceRecording /\ UNCHANGED voiceRest
    \/ StopVoiceRecording /\ UNCHANGED voiceRest
    \/ RestartTimerFire /\ UNCHANGED voiceRest
    \/ RestartRetryFire /\ UNCHANGED voiceRest
    \/ CheckResponse /\ UNCHANGED voiceRest
    \/ CheckRejected /\ UNCHANGED voiceRest
    \/ CheckTimerFire /\ UNCHANGED voiceRest
    \/ CheckFallbackTimerFire /\ UNCHANGED voiceRest
    \/ CheckRetryFire /\ UNCHANGED voiceRest
    \/ BackgroundOnMessage /\ UNCHANGED voiceRest
    \/ \E isRecording \in BOOLEAN : BgSetRecordingState(isRecording) /\ UNCHANGED bgRest
    \/ BgStopRecordingCommand /\ UNCHANGED bgRest
    \/ TabUpdated /\ UNCHANGED bgRest
    \/ TabLoadTimerFire /\ UNCHANGED bgRest
    \/ TabReceive /\ UNCHANGED bgRest

SpecBackground == Init /\ [][BackgroundNext]_vars

(***************************************************************************)
(* Specification of a page load while recording is active: the background  *)
(* and one tab whose recognizer works (no onerror, no stopRecordingCommand *)
(* on its way).  Timers that were armed fire, messages that were sent are  *)
(* handled, a recognizer that was started starts.                          *)
(***************************************************************************)
LoadNext ==
    \/ RecognitionOnStart /\ UNCHANGED voiceRest
    \/ RecognitionOnEnd /\ UNCHANGED voiceRest
    \/ AutoRestartTimerFire /\ UNCHANGED voiceRest
    \/ StartVoiceRecording /\ UNCHANGED voiceRest
    \/ StopVoiceRecording /\ UNCHANGED voiceRest
    \/ RestartTimerFire /\ UNCHANGED voiceRest
    \/ RestartRetryFire /\ UNCHANGED voiceRest
    \/ CheckResponse /\ UNCHANGED voiceRest
    \/ CheckRejected /\ UNCHANGED voiceRest
    \/ CheckTimerFire /\ UNCHANGED voiceRest
    \/ CheckFallbackTimerFire /\ UNCHANGED voiceRest
    \/ CheckRetryFire /\ UNCHANGED voiceRest
    \/ BackgroundOnMessage /\ UNCHANGED voiceRest
    \/ \E isRecording \in BOOLEAN : BgSetRecordingState(isRecording) /\ UNCHANGED bgRest
    \/ TabUpdated /\ UNCHANGED bgRest
    \/ TabLoadTimerFire /\ UNCHANGED bgRest
    \/ TabReceive /\ UNCHANGED bgRest

LoadFairness ==
    /\ WF_vars(TabLoadTimerFire /\ UNCHANGED bgRest)
    /\ WF_vars(TabReceive /\ UNCHANGED bgRest)
    /\ WF_vars(RestartTimerFire /\ UNCHANGED voiceRest)
    /\ WF_vars(RestartRetryFire /\ UNCHANGED voiceRest)
    /\ WF_vars(RecognitionOnStart /\ UNCHANGED voiceRest)

LoadSpec == Init /\ [][LoadNext]_vars /\ LoadFairness
(***************************************************************************)
(* Specification of the number overlay of frontend/content.js.             *)
(***************************************************************************)
NextFrontend ==
    \/ \E hasPayload \in BOOLEAN, found \in 0..MaxFound :
           FeExecuteResult(hasPayload, found) /\ UNCHANGED feRest
    \/ \E found \in 0..MaxFound : FeShowNumbersDirectly(found) /\ UNCHANGED feRest
    \/ FeHideTimerFire /\ UNCHANGED feRest
    \/ FeTick /\ UNCHANGED feRest

SpecFrontend == Init /\ [][NextFrontend]_vars

(***************************************************************************)
(* Properties of the speech-recognition life cycle.                        *)
(***************************************************************************)
\* the lower-cased transcript of the result event recorded in out
OutFullTranscript == ToLowerCase(Trim(out.final \o out.interim))

\* no wake-word variation matches the transcript of the recorded event
OutMatchesNoVariation ==
    \A k \in 1..Len(wakeWordVariations) :
        ~VariationMatches(wakeWordVariations[k], OutFullTranscript)

\* s contains one of the stop-recording phrases, in any letter case
HasStopPhrase(s) == \E pattern \in stopPatterns : Includes(ToLowerCase(s), pattern)

\* C1: while isActivated is false, a result whose transcript matches no
\* wake-word variation processes no command, sends nothing to the background,
\* arms no silence timer and leaves isActivated false.
C1_NoWakeWordNoCommand ==
    (out.op = "onresult" /\ ~out.wasActivated /\ OutMatchesNoVariation) =>
        /\ out.processed = NoCmd
        /\ out.sentBg = <<>>
        /\ ~out.armed
        /\ ~isActivated

C1_Witness ==
    /\ out.op = "onresult"
    /\ ~out.wasActivated
    /\ OutMatchesNoVariation
    /\ Trim(out.final) # EmptyStr
    /\ ~isActivated

\* C2: once onend has armed the auto-restart (the recognizer is idle, the timer
\* is pending, shouldAutoRestart is true), recognition.start() is eventually
\* invoked, unless a stop request turns shouldAutoRestart off.
C2_AutoRestartAfterEnd ==
    [](  (autoRestartTimers > 0 /\ shouldAutoRestart /\ rec = "idle" /\ ~isListening)
      => <>(out.startCalled \/ ~shouldAutoRestart))

C2_Witness ==
    /\ out.op = "autoRestartTimer"
    /\ out.startCalled
    /\ rec = "starting"

\* the step on a final transcript with a stop-recording phrase: isActivated is
\* false, setActivationState(false) is sent, nothing is processed
C4_StopPhraseStep ==
    (out.op = "onresult" /\ out.wasActivated /\ HasStopPhrase(out.final)) =>
        /\ ~isActivated
        /\ out.sentBg = <<"setActivationState:false">>
        /\ out.processed = NoCmd

C5_NoStartAfterStopRequest == stopRequested => ~out.startCalled

\* a stop-recording phrase was recognized by the recorded handler
OutStopPhraseRecognized ==
    /\ out.op \in {"onresult", "interimTimeout"}
    /\ HasStopPhrase(out.final)

\* a final transcript that is a command: not blank, no stop phrase
OutFinalCommand ==
    /\ out.op = "onresult"
    /\ out.wasActivated
    /\ Trim(out.final) # EmptyStr
    /\ ~HasStopPhrase(out.final)

WordAt(s, i, n) ==
    /\ n >= 1 /\ i + n <= Len(s)
    /\ i = 0 \/ s[i] = " "
    /\ i + n = Len(s) \/ s[i + n + 1] = " "
    /\ \A k \in (i + 1)..(i + n) : s[k] # " "

\* where the wake word ends in s: after the first occurrence of the detected
\* variation d, or after the first word that is a truncated d
WakeWordEnd(s, d) ==
    IF Includes(s, d) THEN IndexOf(s, d) + Len(d)
    ELSE LET ends == {i + n : <<i, n>> \in
                        {x \in (0..Len(s)) \X (2..Len(d)) :
                            /\ WordAt(s, x[1], x[2])
                            /\ StartsWith(d, SubSeq(s, x[1] + 1, x[1] + x[2]))}}
         IN IF ends = {} THEN Len(s)
            ELSE CHOOSE e \in ends : \A f \in ends : e <= f

\* C8 as claimed: when the wake word is detected, the text after the wake word
\* is processed at once if it has more than 2 characters, and nothing is
\* processed otherwise.
C8_CommandAfterWakeWord ==
    (out.op = "onresult" /\ ~out.wasActivated /\ ~OutMatchesNoVariation) =>
        LET d == DetectWakeWord(OutFullTranscript)
            after == Trim(Substring(OutFullTranscript,
                                    WakeWordEnd(OutFullTranscript, d)))
        IN /\ isActivated
           /\ out.processed = IF Len(after) > 2 THEN after ELSE NoCmd

(***************************************************************************)
(* Properties of the number overlay and of action sequences.               *)
(***************************************************************************)
DigitChar(d) == CHOOSE c \in Digits : DigitValue(c) = d

\* the decimal numeral of a natural number
RECURSIVE DecimalString(_)
DecimalString(n) ==
    IF n < 10 THEN <<DigitChar(n)>>
    ELSE DecimalString(n \div 10) \o <<DigitChar(n % 10)>>

\* the target 'number_N'
NumberTarget(n) == NumberPrefix \o DecimalString(n)

\* the last operation was executeAction looking for the target of a click or type
OutFindActionTarget ==
    nout.op = "executeAction" /\ nout.action.action \in {"click", "type"}

\* C3: when findActionTarget is given an action whose target is 'number_N' and
\* the element stored under N in numberedElements is in the document and
\* interactable, it returns that element, whatever validated_selector,
\* selector, coordinates or text the action carries.
C3_NumberedElementFirst ==
    OutFindActionTarget =>
        \A n \in DOMAIN numberedElements :
            ( /\ n >= 0
              /\ nout.action.target = NumberTarget(n)
              /\ numberedElements[n] \in inDoc
              /\ isElementInteractable(numberedElements[n]) )
            => nout.found = numberedElements[n]

\* C3 witness: a click on number_1 found the element stored under 1 although its
\* validated selector, selector and coordinates name another interactable element
C3_Witness ==
    /\ OutFindActionTarget
    /\ nout.action.target = T_Number1
    /\ 1 \in DOMAIN numberedElements
    /\ nout.found = numberedElements[1]
    /\ nout.action.validated_selector # Null
    /\ nout.action.validated_selector # nout.found
    /\ isElementInteractable(nout.action.validated_selector)
    /\ nout.action.coordinates # <<>>

\* C6: executeActions calls executeAction for the actions of its list in list
\* order, each once; an action starts only when the previous one and its pause
\* have settled; when executeActions returns every action of the list has been
\* attempted, the ones after an action that threw included.
C6_EveryActionOnceInOrder ==
    /\ \A k \in 1..Len(attempted) : attempted[k] = k
    /\ Len(attempted) <= Len(actions)
    /\ Cardinality(running) + Cardinality(pausing) <= 1
    /\ \A r \in running : r.index = Len(attempted)
    /\ \A i \in pausing : i = Len(attempted)
    /\ thrown \subseteq 1..Len(attempted)
    /\ nout.op = "executeActions:returned" =>
          /\ Len(nout.attempted) = Len(nout.actions)
          /\ \A k \in 1..Len(nout.attempted) : nout.attempted[k] = k

\* C6 witness: executeActions returned after a list whose first action threw and
\* whose second action was attempted all the same
C6_Witness ==
    /\ nout.op = "executeActions:returned"
    /\ Len(nout.actions) >= 2
    /\ 1 \in nout.thrown
    /\ Len(nout.attempted) = Len(nout.actions)

\* C9: after showNumbers every entry of numberedElements and every overlay was
\* made by that call from one of its items; after showNumbersDirectly the
\* numbers are 1..k, k at most 50, each on one visible element and one overlay.
C9_OnlyEntriesOfThisCall ==
    /\ nout.op = "showNumbers" =>
          /\ \A n \in DOMAIN numberedElements :
                \E i \in 1..Len(nout.items) :
                    /\ nout.items[i].number = n
                    /\ nout.items[i].element = numberedElements[n]
                    /\ numberedElements[n] \in inDoc
          /\ \A k \in 1..Len(overlays) :
                \E i \in 1..Len(nout.items) :
                    /\ nout.items[i].number = overlays[k].number
                    /\ nout.items[i].element = overlays[k].element
          /\ isShowingNumbers
    /\ nout.op = "showNumbersDirectly" =>
          LET k == Len(overlays)
          IN /\ k <= 50
             /\ DOMAIN numberedElements = 1..k
             /\ \A n \in 1..k :
                   /\ overlays[n].number = n
                   /\ overlays[n].element = numberedElements[n]
                   /\ IsVisible(numberedElements[n])
             /\ \A m, n \in 1..k : numberedElements[m] = numberedElements[n] => m = n
             /\ isShowingNumbers

\* C9 witness: showNumbersDirectly on a page with more than 50 visible elements,
\* called while number 7 was on another element
C9_Witness ==
    /\ nout.op = "showNumbersDirectly"
    /\ Cardinality({e \in Elems : IsVisible(e)}) > 50
    /\ Len(overlays) = 50
    /\ 7 \in DOMAIN nout.before
    /\ nout.before[7] # numberedElements[7]

\* the last operation ran hideNumbers and nothing after it
OutHideNumbers ==
    \/ nout.op = "hideNumbers"
    \/ nout.op = "executeAction" /\ nout.action.action = "hide_numbers"

\* C10: after hideNumbers, from the 1 s timer or from a hide_numbers action,
\* overlays and numberedElements are empty and isShowingNumbers is false;
\* hideNumbers applied to its own result gives that result again.
C10_HideNumbersClears ==
    /\ OutHideNumbers =>
          /\ overlays = <<>>
          /\ numberedElements = <<>>
          /\ ~isShowingNumbers
    /\ hideNumbers(hideNumbers(NumbersState)) = hideNumbers(NumbersState)
    /\ OutHideNumbers => hideNumbers(NumbersState) = NumbersState

\* C10 witness: a hide_numbers action ran while numbers were shown
C10_Witness ==
    /\ nout.op = "executeAction"
    /\ nout.action.action = "hide_numbers"
    /\ nout.before # <<>>
    /\ numberedElements = <<>>

\* some action of the sequence has a target that begins with 'number_'
HasNumberTarget(list) ==
    \E i \in 1..Len(list) :
        /\ Len(list[i].target) >= 7
        /\ SubSeq(list[i].target, 1, 7) = <<"n", "u", "m", "b", "e", "r", "_">>

NumbersUnchanged == UNCHANGED <<numberedElements, overlays, isShowingNumbers>>

C23_DelayedHideSparesLaterDisplay ==
    [][ (/\ nout.op \in {"showNumbers", "showNumbersDirectly"}
         /\ numberedElements # <<>>
         /\ Len(hideTimers') < Len(hideTimers))
        => NumbersUnchanged
      ]_vars

(***************************************************************************)
(* Properties of the Accessly content script.                              *)
(***************************************************************************)
\* C11 as claimed: when the 1 s timer that onend armed (no restart was in
\* progress) fires and recognition is neither listening nor starting,
\* speechRecognition.start() is called.
C11_RestartAfterEnd ==
    (aout.op = "endTimer" /\ ~aout.wasListening /\ aout.recWas = "idle")
        => aout.startCalled

\* C21 as claimed: when the 3 s timer that onerror armed after a recoverable
\* error (no restart was in progress) fires and recognition has ended and is
\* not listening, speechRecognition.start() is called.
C21_RestartAfterRecoverableError ==
    (aout.op = "errorTimer" /\ ~aout.wasListening /\ aout.recWas = "idle")
        => aout.startCalled

(***************************************************************************)
(* Properties of the way of a voice command.                               *)
(***************************************************************************)
\* C12: when the fetch of processVoiceCommand fails or answers with a non-OK
\* status, a voiceError message is sent and the step executes nothing: the
\* numbered elements, the overlays, the action loop, the delayed hide and the
\* activation and listening state are left as they were.
C12_FailedRequestExecutesNothing ==
    [][ (contentFetch' # contentFetch /\ cout'.op = "processVoiceCommand:settled"
           /\ cout'.outcome # "ok")
        => /\ cout'.popup = "voiceError"
           /\ UNCHANGED <<numberedElements, overlays, isShowingNumbers, actions, loopPc,
                          attempted, hideTimers, executions, isActivated, isListening>>
      ]_vars

\* C12 witness: a request that came back with a non-OK status while numbers
\* were shown; the numbers are still there and voiceError was sent
C12_Witness ==
    /\ cout.op = "processVoiceCommand:settled"
    /\ cout.outcome = "notOk"
    /\ cout.popup = "voiceError"
    /\ numberedElements # <<>>
    /\ executions[cout.command] = 0

\* C13 as claimed: on a page with an input that can take the focus, a type
\* action without target, selector and coordinates finds an input to type
\* into (the focused one) and succeeds.
C13_TypeIntoFocusedInput ==
    (/\ nout.op = "executeAction"
     /\ nout.action.action = "type"
     /\ nout.action.target = EmptyStr
     /\ nout.action.validated_selector = Null
     /\ ~nout.action.selector.present
     /\ nout.action.coordinates = <<>>
     /\ \E e \in inDoc : TagName(e) = "INPUT" /\ isElementInteractable(e))
        => /\ nout.found # Null
           /\ TagName(nout.found) = "INPUT"
           /\ [index |-> attempted[Len(attempted)], outcome |-> "ok"] \in running

\* C14 as claimed: no voice command is requested from the backend more than
\* once or executed more than once, whether or not the popup is open.
C14_CommandHandledOnce ==
    \A command \in 1..MaxCommands :
        /\ backendRequests[command] <= 1
        /\ executions[command] <= 1

\* C15 as claimed: once the silence timer has processed the text of an
\* utterance, the final result of that same utterance, the next result event
\* of the same recognition session, is not processed again.
C15_UtteranceProcessedOnce ==
    [][ (out.spoken # NoCmd /\ out'.op = "onresult")
        => ~(Trim(out'.final) = out.spoken /\ out'.processed = out.spoken)
      ]_vars

(***************************************************************************)
(* Properties of the background script and its messages to the tab.        *)
(***************************************************************************)
\* C16 as claimed: the background's stopRecordingCommand step clears both of
\* its flags as it notifies the tabs, and a content script that has handled
\* stopRecordingFromVoice has shouldAutoRestart false and its recognition
\* stopped: neither running nor about to run.
C16_StopCommandStopsEveryTab ==
    /\ [][ (Len(toTab') > Len(toTab) /\ toTab'[Len(toTab')] = "stopRecordingFromVoice")
           => (~bgRecording' /\ ~bgActivated') ]_vars
    /\ [](out.op = "stopRecordingFromVoice"
            => (~shouldAutoRestart /\ rec \notin {"starting", "running"}))

\* C17 as claimed: in the background, isActivated implies isRecordingActive.
C17_ActivatedImpliesRecording == bgActivated => bgRecording

\* C20 as claimed: no handler calls recognition.start() while a start is
\* pending or recognition is running.
C20_StartsMutuallyExclusive == out.startedIn \notin {"starting", "running"}

\* C19: the background answers getRecordingState with the isActivated it has
\* recorded; the content script that receives the answer is in activated mode
\* exactly when the answer says so, and it is in ready mode when the request
\* fails.
C19_ActivationSurvivesPageLoad ==
    [][ /\ (checkResp = NoResp /\ checkResp' # NoResp)
            => checkResp' = (IF bgActivated THEN "true" ELSE "false")
        /\ (checkPc = "awaiting" /\ checkPc' = "timer")
            => isActivated' = (checkResp = "true")
        /\ (checkPc = "awaiting" /\ checkPc' = "fallback")
            => ~isActivated'
      ]_vars

\* C19 witness: the answer of the background has put a content script that
\* was in ready mode into activated mode
C19_Witness ==
    /\ out.op = "checkActivationState"
    /\ ~out.wasActivated
    /\ isActivated
    /\ bgActivated

C24_AutoHideNotBeforeDelay ==
    (feout.op = "hideTimer" /\ feout.wasShowing /\ feout.had > 0)
        => feout.shownFor >= AutoHideDelay
====
